---- MODULE Spec2Model ----
(***************************************************************************)
(* CryptoAnalyzer Pro, browser client.                                     *)
(*                                                                         *)
(* The model covers the App component (session flag, persisted token,      *)
(* route table), the Login component (form validation, mock credential     *)
(* check) and the Dashboard component's 'cryptoData' query as driven by    *)
(* the react-query client configured in index.tsx (retry 3, retryDelay     *)
(* 1000, staleTime 5 min, cacheTime 10 min, refetchInterval 30 s).         *)
(*                                                                         *)
(* Time is in milliseconds.  Every running timer is kept as the time left  *)
(* until it fires and the cached data as its age; time passes in Elapse,   *)
(* never beyond the next timer, and a timer that is due fires before time  *)
(* passes again.                                                           *)
(*                                                                         *)
(* Strings that the code measures or matches (e-mail, password) are        *)
(* sequences of one-character strings, so that length and the e-mail       *)
(* pattern are computed and not assumed.                                   *)
(*                                                                         *)
(* React (legacy root, ReactDOM.render) commits a render and flushes the   *)
(* passive effects of that commit in a later task: the cleanups of what    *)
(* the commit unmounted, then the effects of what it mounted.  The model   *)
(* shows the committed screen as a state of its own.  React flushes the    *)
(* pending effects before it handles a user event, so no click or change   *)
(* falls between a commit and its effects; a timer callback or a settling  *)
(* queryFn call that is due may.  React also flushes them before it        *)
(* renders again, so a callback that sets state twice outside a batch      *)
(* runs the effects of its first render itself; and a toast that is        *)
(* measured when rendered makes one more render, within the click or       *)
(* callback that emitted it.                                               *)
(*                                                                         *)
(* The page may be hidden and shown and the browser go offline and online: *)
(* react-query fetches on an interval tick only while the page is visible, *)
(* pauses a retry that comes due while it is hidden or offline, and on the *)
(* event that finds it visible and online refetches stale data and         *)
(* continues a paused retry.                                               *)
(***************************************************************************)
EXTENDS Integers, Sequences, FiniteSets, TLC

VARIABLES
    storage,          \* localStorage['auth_token']: NoToken or a token
    isAuthenticated,  \* App: React state isAuthenticated
    path,             \* BrowserRouter: current location
    screen,           \* element committed by <Routes> for (isAuthenticated, path)
    startupPending,   \* App: the mount effect (startup check) has not run yet
    loading,          \* Login: React state loading
    error,            \* Login: React state error
    formErrors,       \* Login: react-hook-form formState.errors
    form,             \* Login: the values of the two fields and formState.isSubmitted
    pendingAuth,      \* Login: onSubmit suspended on its 1 s timer, with its form data
    toast,            \* last react-hot-toast notification emitted
    loads,            \* number of page loads so far (bounded)
    provider,         \* which queryFn serves 'cryptoData': the shipped mock or a remote source
    query,            \* react-query: state of the Query 'cryptoData' in the QueryCache
    retryer,          \* react-query: the Retryer of the current fetch
    inflight,         \* number of queryFn calls started and not yet settled
    observers,        \* number of mounted useQuery observers of 'cryptoData'
    timers,           \* time left on each running timer, Off when not running
    paced,            \* number of waits and timed submissions so far (bounded)
    rejected,         \* number of queryFn calls the source has rejected so far (bounded)
    focused,          \* focusManager.isFocused(): the document is visible
    online,           \* onlineManager.isOnline(): navigator.onLine
    render,           \* Dashboard: a formatter call of a render: function, argument, result
    lastUpdate,       \* Dashboard: age of React state lastUpdate, Off while no Dashboard is mounted
    view              \* Dashboard: what its last render shows of the query, NoView while none is mounted

vars == <<storage, isAuthenticated, path, screen, startupPending, loading, error,
          formErrors, form, pendingAuth, toast, loads, provider, query, retryer,
          inflight, observers, timers, paced, rejected, focused, online, render, lastUpdate, view>>

pageVars  == <<storage, isAuthenticated, path, screen, startupPending, loading, error,
               formErrors, form, pendingAuth, toast, loads, provider, query, retryer,
               inflight, observers, timers, paced, rejected, focused, online, lastUpdate, view>>
appVars   == <<storage, isAuthenticated, path, screen, startupPending>>
loginVars == <<loading, error, formErrors, form, pendingAuth>>
queryVars == <<query, retryer, inflight, observers>>
cacheVars == <<query, retryer, inflight, observers, timers>>

----------------------------------------------------------------------------
(* Bounds of the model *)

\* page loads (initial load and reloads) explored per behaviour
MaxLoads == 2
\* distinct values of Date.now() a mock token is stamped with
MaxStamp == 2
\* waits of the user and timed submissions explored per behaviour
MaxPaced == 3
\* rejections of a remote source explored per behaviour
MaxRejected == 5

----------------------------------------------------------------------------
(* Characters and strings *)

Lower == {"a","b","c","d","e","f","g","h","i","j","k","l","m",
          "n","o","p","q","r","s","t","u","v","w","x","y","z"}
Upper == {"A","B","C","D","E","F","G","H","I","J","K","L","M",
          "N","O","P","Q","R","S","T","U","V","W","X","Y","Z"}
Digit == {"0","1","2","3","4","5","6","7","8","9"}
Letter == Lower \cup Upper

\* "admin@cryptoanalyzer.com"
AdminEmail == <<"a","d","m","i","n","@","c","r","y","p","t","o","a","n","a","l",
                "y","z","e","r",".","c","o","m">>
\* "user@example.org": well formed, not the demo account
OtherEmail == <<"u","s","e","r","@","e","x","a","m","p","l","e",".","o","r","g">>
\* "admin": no @, no domain
BadEmail == <<"a","d","m","i","n">>
\* an address with no top-level domain
LocalEmail == <<"a","d","m","i","n","@","l","o","c","a","l","h","o","s","t">>
\* "admin123"
Admin123 == <<"a","d","m","i","n","1","2","3">>
\* "wrong"
Wrong == <<"w","r","o","n","g">>
\* "wrong123"
Wrong123 == <<"w","r","o","n","g","1","2","3">>
EmptyStr == <<>>

Emails == {AdminEmail, OtherEmail, BadEmail, LocalEmail, EmptyStr}
Passwords == {Admin123, Wrong, Wrong123, EmptyStr}

----------------------------------------------------------------------------
(* Login: field rules registered with react-hook-form *)

PasswordMinLength == 6

\* /^[A-Z0-9._%+-]+@[A-Z0-9.-]+\.[A-Z]{2,}$/i
EmailLocalChar == Letter \cup Digit \cup {".", "_", "%", "+", "-"}
EmailDomainChar == Letter \cup Digit \cup {".", "-"}
EmailPattern(s) ==
    \E at \in 1..Len(s) : \E dot \in 1..Len(s) :
        /\ s[at] = "@"
        /\ s[dot] = "."
        /\ at > 1
        /\ dot > at + 1
        /\ Len(s) - dot >= 2
        /\ \A i \in 1..(at - 1) : s[i] \in EmailLocalChar
        /\ \A i \in (at + 1)..(dot - 1) : s[i] \in EmailDomainChar
        /\ \A i \in (dot + 1)..Len(s) : s[i] \in Letter

\* <input type="email"> in a form without noValidate: the browser's check of
\* the value at a click on the submit button.  A valid e-mail address is
\* /^[a-zA-Z0-9.!#$%&'*+\/=?^_`{|}~-]+@[a-zA-Z0-9](?:[a-zA-Z0-9-]{0,61}[a-zA-Z0-9])?
\*   (?:\.[a-zA-Z0-9](?:[a-zA-Z0-9-]{0,61}[a-zA-Z0-9])?)*$/
\* (the grave accent of the local part has no string in TLA+ and so is in no
\* value here)
AddressLocalChar ==
    Letter \cup Digit \cup {".", "!", "#", "$", "%", "&", "'", "*", "+", "/", "=", "?",
                            "^", "_", "{", "|", "}", "~", "-"}
LetDig == Letter \cup Digit
ValidEmailAddress(s) ==
    \E at \in 2..(Len(s) - 1) :
        /\ s[at] = "@"
        /\ \A i \in 1..(at - 1) : s[i] \in AddressLocalChar
        /\ \A i \in (at + 1)..Len(s) : s[i] \in LetDig \cup {"-", "."}
        /\ s[at + 1] \in LetDig
        /\ s[Len(s)] \in LetDig
        /\ \A i \in (at + 2)..(Len(s) - 1) :
              s[i] = "." => (s[i - 1] \in LetDig /\ s[i + 1] \in LetDig)
        /\ \A i \in (at + 1)..(Len(s) - 63) : \E j \in i..(i + 63) : s[j] = "."

\* validity.typeMismatch of the e-mail field: a value that is not empty and
\* not a valid e-mail address; the field is not required, so the empty value
\* passes, and the password field has no constraint.  A form with a field that
\* fails gets no submit event
TypeMismatch(email) == email # EmptyStr /\ ~ValidEmailAddress(email)

NoFieldError == ""
\* EmailError without the pattern rule
EmailErrorNoPattern(email) ==
    IF email = EmptyStr THEN "Email is required" ELSE NoFieldError

EmailError(email) ==
    IF email = EmptyStr THEN "Email is required"
    ELSE IF ~EmailPattern(email) THEN "Invalid email address"
    ELSE NoFieldError
\* PasswordError without the minLength rule
PasswordErrorNoMinLength(password) ==
    IF password = EmptyStr THEN "Password is required" ELSE NoFieldError

PasswordError(password) ==
    IF password = EmptyStr THEN "Password is required"
    ELSE IF Len(password) < PasswordMinLength
         THEN "Password must be at least 6 characters"
    ELSE NoFieldError

\* handleSubmit(onSubmit): the errors of a submission; onSubmit runs iff there are none
Validate(email, password) ==
    [email |-> EmailError(email), password |-> PasswordError(password)]
NoErrors == [email |-> NoFieldError, password |-> NoFieldError]

\* useForm(): both fields empty, nothing submitted
NoForm == [email |-> EmptyStr, password |-> EmptyStr, isSubmitted |-> FALSE]

\* the onChange of register('email'): the value is taken; once the form has
\* been submitted (reValidateMode onChange) the rules of the field run again
\* and its error is set or cleared
OnChangeEmail(f, errs, email) ==
    [form |-> [f EXCEPT !.email = email],
     errors |-> IF f.isSubmitted THEN [errs EXCEPT !.email = EmailError(email)] ELSE errs]

\* the onChange of register('password'), likewise
OnChangePassword(f, errs, password) ==
    [form |-> [f EXCEPT !.password = password],
     errors |-> IF f.isSubmitted THEN [errs EXCEPT !.password = PasswordError(password)]
                ELSE errs]

\* CredentialsAccepted that compares the e-mail only
CredentialsAcceptedEmailOnly(email, password) == email = AdminEmail

\* onSubmit: the mock credential check
CredentialsAccepted(email, password) ==
    email = AdminEmail /\ password = Admin123

\* 'mock-jwt-token-' + Date.now()
MockToken(stamp) == <<"mock-jwt-token-", stamp>>
\* localStorage.getItem on a key that is not set
NoToken == <<>>
Tokens == {MockToken(n) : n \in 1..MaxStamp}

\* no onSubmit is suspended
NoSubmit == <<>>
NoToast == "none"

----------------------------------------------------------------------------
(* App: route table *)

Paths == {"/login", "/dashboard", "/", "/unknown"}

Show(kind) == [kind |-> kind, to |-> ""]
NavigateTo(p) == [kind |-> "Navigate", to |-> p]

\* Element with the /dashboard route left unguarded
ElementUnguarded(auth, p) ==
    IF p = "/login" THEN (IF ~auth THEN Show("Login") ELSE NavigateTo("/dashboard"))
    ELSE IF p = "/dashboard" THEN Show("Dashboard")
    ELSE IF p = "/" THEN NavigateTo(IF auth THEN "/dashboard" ELSE "/login")
    ELSE NavigateTo("/")

\* Element with the catch-all route sent to /login instead of /
ElementUnknownToLogin(auth, p) ==
    IF p = "/login" THEN (IF ~auth THEN Show("Login") ELSE NavigateTo("/dashboard"))
    ELSE IF p = "/dashboard" THEN (IF auth THEN Show("Dashboard") ELSE NavigateTo("/login"))
    ELSE IF p = "/" THEN NavigateTo(IF auth THEN "/dashboard" ELSE "/login")
    ELSE NavigateTo("/login")

\* Element with the guard of the /dashboard route inverted
ElementDashboardInverted(auth, p) ==
    IF p = "/login" THEN (IF ~auth THEN Show("Login") ELSE NavigateTo("/dashboard"))
    ELSE IF p = "/dashboard" THEN (IF ~auth THEN Show("Dashboard") ELSE NavigateTo("/login"))
    ELSE IF p = "/" THEN NavigateTo(IF auth THEN "/dashboard" ELSE "/login")
    ELSE NavigateTo("/")

\* <Routes>: the element rendered for a location under an authentication flag
Element(auth, p) ==
    IF p = "/login" THEN (IF ~auth THEN Show("Login") ELSE NavigateTo("/dashboard"))
    ELSE IF p = "/dashboard" THEN (IF auth THEN Show("Dashboard") ELSE NavigateTo("/login"))
    ELSE IF p = "/" THEN NavigateTo(IF auth THEN "/dashboard" ELSE "/login")
    ELSE NavigateTo("/")

\* the screen a request for p ends on, following <Navigate replace> redirects
RECURSIVE Resolve(_, _, _)
Resolve(auth, p, fuel) ==
    LET e == Element(auth, p) IN
    IF e.kind # "Navigate" THEN e.kind
    ELSE IF fuel = 0 THEN "Loop"
    ELSE Resolve(auth, e.to, fuel - 1)

\* more redirects than the route table has routes means a cycle
RedirectFuel == 4

----------------------------------------------------------------------------
(* react-query: the Query 'cryptoData', its reducer and its Retryer *)

\* queryClient defaultOptions.queries
Retry == 3
RetryDelay == 1000
StaleTime == 5 * 60 * 1000
CacheTime == 10 * 60 * 1000
\* useQuery options of the Dashboard
RefetchInterval == 30000
\* the setTimeout the shipped queryFn awaits, and the one Login.onSubmit awaits
QueryFnDelay == 1000
LoginDelay == 1000

\* a timer that is not running, a Query without data
Off == -1
NoTimers == [interval |-> Off, gc |-> Off, fetch |-> Off, sleep |-> Off, auth |-> Off]
TimerNames == {"interval", "gc", "fetch", "sleep", "auth"}
\* the times left on the running timers
Running(t) == {t[k] : k \in TimerNames} \ {Off}

\* the symbols of the five records the queryFn resolves with, in order
CryptoRecords == <<"BTC", "ETH", "UNI", "ADA", "TAO">>
NoData == <<>>
NoError == ""
\* the reasons a market data source gives for a failure
FailureReasons == {"network error", "rate-limited"}

\* the shipped queryFn always resolves; a remote source may also reject
\* Outcomes with a mock queryFn that may reject
OutcomesMockMayFail(prov) == {"ok", "fail"}

Outcomes(prov) == IF prov = "mock" THEN {"ok"} ELSE {"ok", "fail"}
\* the shipped queryFn settles after its timeout, a remote source at any time
FetchDelay(prov) == IF prov = "mock" THEN QueryFnDelay ELSE Off

\* no Query in the QueryCache (never built, or garbage collected)
NoQuery ==
    [exists |-> FALSE, status |-> "idle", data |-> NoData, dataAge |-> Off,
     error |-> NoError, fetchFailureCount |-> 0, isFetching |-> FALSE,
     isPaused |-> FALSE]
\* QueryCache.build: initial state of a Query without initialData
NewQuery == [NoQuery EXCEPT !.exists = TRUE]

\* phase: none | attempt (queryFn pending) | sleep (retryDelay running) |
\* paused (the retry delay is over, the page hidden or offline)
\* reason is the error of the last rejected attempt; failed and joined are
\* history fields: attempts of this fetch that rejected, and whether a later
\* request joined this fetch
NoRetryer ==
    [phase |-> "none", failureCount |-> 0, cancelRetry |-> FALSE, delay |-> 0,
     reason |-> NoError, failed |-> 0, joined |-> FALSE]
NewRetryer == [NoRetryer EXCEPT !.phase = "attempt"]

\* reducer, action 'fetch'
ReduceFetch(q) ==
    [q EXCEPT !.fetchFailureCount = 0,
              !.isFetching = TRUE,
              !.isPaused = FALSE,
              !.status = IF q.data = NoData THEN "loading" ELSE @,
              !.error = IF q.data = NoData THEN NoError ELSE @]
\* reducer, action 'failed' (an attempt rejected and will be retried)
ReduceFailed(q) == [q EXCEPT !.fetchFailureCount = @ + 1]
\* reducer, actions 'pause' and 'continue'
ReducePause(q) == [q EXCEPT !.isPaused = TRUE]
ReduceContinue(q) == [q EXCEPT !.isPaused = FALSE]
\* ReduceError that records no error
ReduceErrorNoReason(q, err) ==
    [q EXCEPT !.fetchFailureCount = @ + 1,
              !.isFetching = FALSE,
              !.isPaused = FALSE,
              !.status = "error"]

\* reducer, action 'error' (the fetch rejected for good)
ReduceError(q, err) ==
    [q EXCEPT !.error = err,
              !.fetchFailureCount = @ + 1,
              !.isFetching = FALSE,
              !.isPaused = FALSE,
              !.status = "error"]
\* ReduceSuccess that leaves the failure count as it is
ReduceSuccessKeepsCount(q, data) ==
    [q EXCEPT !.data = data,
              !.dataAge = 0,
              !.error = NoError,
              !.isFetching = FALSE,
              !.isPaused = FALSE,
              !.status = "success"]

\* reducer, action 'success': dataUpdatedAt is the time of the dispatch
ReduceSuccess(q, data) ==
    [q EXCEPT !.data = data,
              !.dataAge = 0,
              !.error = NoError,
              !.fetchFailureCount = 0,
              !.isFetching = FALSE,
              !.isPaused = FALSE,
              !.status = "success"]

Fetching(q, r, n) == [query |-> q, retryer |-> r, inflight |-> n]

\* QueryFetch that starts a fetch even when one is in progress
QueryFetchNoDedup(q, r, n) == Fetching(ReduceFetch(q), NewRetryer, n + 1)

\* Query.fetch: join the fetch in progress, else start one
QueryFetch(q, r, n) ==
    IF q.isFetching
    THEN Fetching(q, [r EXCEPT !.cancelRetry = FALSE, !.joined = TRUE], n)
    ELSE Fetching(ReduceFetch(q), NewRetryer, n + 1)

\* ShouldRetry that counts the first attempt among the Retry tries
ShouldRetryCountsAttempts(r) == ~r.cancelRetry /\ r.failureCount + 1 < Retry

\* Retryer: does a rejected attempt get another try
\* ShouldRetry with no limit on the retries
ShouldRetryForever(r) == ~r.cancelRetry

ShouldRetry(r) == ~r.cancelRetry /\ r.failureCount < Retry

\* Retryer, after the sleep of a retry delay: pause while the page is hidden or
\* offline
ShouldPause(focus, onl) == ~focus \/ ~onl

\* Retryer, after the sleep or the pause: reject with the last error when the
\* retries were cancelled meanwhile, else run the next attempt
Resume(q, r, n) ==
    IF r.cancelRetry
    THEN Fetching(ReduceError(q, r.reason), [r EXCEPT !.phase = "none", !.delay = 0], n)
    ELSE Fetching(q, [r EXCEPT !.phase = "attempt", !.delay = 0], n + 1)

\* IsStale with the refetch interval in the place of staleTime
IsStaleAfterInterval(q) == q.dataAge = Off \/ q.dataAge >= RefetchInterval

\* Query.isStaleByTime(staleTime): no data, or data as old as staleTime or older
IsStale(q) == q.dataAge = Off \/ q.dataAge >= StaleTime

\* ShouldFetchOnMount of refetchOnMount: 'always'
ShouldFetchOnMountAlways(q, stale) == TRUE

\* QueryObserver.shouldFetchOnMount (enabled, refetchOnMount and retryOnMount at
\* their defaults): no data yet, or data older than staleTime
ShouldFetchOnMount(q, stale) == q.data = NoData \/ stale

\* useQuery during the render of a Dashboard: the QueryObserver is constructed
\* and QueryCache.build hands it the cached Query, or a new one
BuildQuery(q) == IF q.exists THEN q ELSE NewQuery
\* a Query that is constructed schedules its garbage collection, having no
\* observer yet
BuildTimers(t, q) == IF q.exists THEN t ELSE [t EXCEPT !.gc = CacheTime]

\* the effect of useQuery, QueryObserver.onSubscribe: the observer is added to
\* its Query and fetches if shouldFetchOnMount; executeFetch takes the Query
\* from the cache anew, building one if the cache has none any more
MountQuery(q, r, n, stale) ==
    LET built == IF q.exists THEN q ELSE NewQuery IN
    IF ShouldFetchOnMount(built, stale) THEN QueryFetch(built, r, n)
    ELSE Fetching(built, r, n)

\* UnmountRetryer that leaves the retries running
UnmountRetryerKeepsRetry(r) == r

\* Query.removeObserver of the last observer: the queryFn promise cannot be
\* cancelled, so the fetch goes on and only its retries are cancelled
UnmountRetryer(r) == [r EXCEPT !.cancelRetry = TRUE]

\* Refetch that honours staleTime
RefetchIfStale(q, r, n) ==
    IF IsStale(q) THEN QueryFetch(q, r, n) ELSE Fetching(q, r, n)

\* refetch() of the useQuery result: fetch, whatever the age of the data
Refetch(q, r, n) == QueryFetch(q, r, n)

\* TickFetch that honours staleTime
TickFetchIfStale(q, r, n) ==
    IF IsStale(q) THEN QueryFetch(q, r, n) ELSE Fetching(q, r, n)

\* the refetchInterval callback: executeFetch, whatever the age of the data
TickFetch(q, r, n) == QueryFetch(q, r, n)

\* IntervalFetches of refetchIntervalInBackground: true
IntervalFetchesInBackground(focus) == TRUE

\* the guard of the refetchInterval callback, refetchIntervalInBackground not
\* being set: fetch only while the page is focused
IntervalFetches(focus) == focus

\* Query.onFocus and Query.onOnline (refetchOnWindowFocus and
\* refetchOnReconnect at their defaults): an observer refetches when the data
\* is stale, then a paused Retryer continues
OnFocus(q, r, n, obs) ==
    LET f == IF obs > 0 /\ IsStale(q) THEN QueryFetch(q, r, n) ELSE Fetching(q, r, n)
    IN IF f.retryer.phase = "paused"
       THEN Resume(ReduceContinue(f.query), f.retryer, f.inflight)
       ELSE f

\* QueryObserver.onSubscribe: the Query is kept from garbage collection and the
\* refetch interval starts
Subscribe(t) == [t EXCEPT !.gc = Off, !.interval = RefetchInterval]
\* Unsubscribe that schedules no garbage collection
UnsubscribeKeepsForever(t) == [t EXCEPT !.interval = Off]

\* Unsubscribe that schedules garbage collection at once
UnsubscribeEvictsAtOnce(t) == [t EXCEPT !.interval = Off, !.gc = 0]

\* QueryObserver.destroy and Query.removeObserver of the last observer: the
\* interval is cleared and garbage collection scheduled after cacheTime
Unsubscribe(t) == [t EXCEPT !.interval = Off, !.gc = CacheTime]
\* QueryObserver.onQueryUpdate, on every dispatch of the Query: a subscribed
\* observer starts its refetch interval anew
Updated(t, obs) == IF obs > 0 THEN [t EXCEPT !.interval = RefetchInterval] ELSE t
\* timers after a request that went from n to m pending queryFn calls
Requested(t, obs, prov, n, m) ==
    IF m > n THEN [Updated(t, obs) EXCEPT !.fetch = FetchDelay(prov)] ELSE t

\* what a render of the Dashboard shows of the query: rows of cryptoData, the
\* progress bar while isLoading; error and isError are not read.  useQuery
\* renders the optimistic result of its observer (QueryObserver.createResult):
\* while the observer has not subscribed and the mount will fetch, the status
\* is loading when the data was never updated, whatever the status of the Query
DashboardView(q, subscribed) ==
    LET fetchOnMount == ~subscribed /\ ShouldFetchOnMount(q, IsStale(q))
        status == IF fetchOnMount /\ q.dataAge = Off THEN "loading" ELSE q.status
    IN [rows |-> q.data,
        progress |-> status = "loading",
        errorIndicator |-> FALSE]
\* no Dashboard is mounted
NoView == [rows |-> NoData, progress |-> FALSE, errorIndicator |-> FALSE]
\* the view after a dispatch of the Query: the subscribed observer of a mounted
\* Dashboard renders it again with the new state; a Dashboard whose observer
\* has not subscribed is not rendered again, an unmounted one not at all
Shown(v, q, obs, mounted) ==
    IF mounted /\ obs > 0 THEN DashboardView(q, TRUE) ELSE v

\* the delay before the retry of an attempt that failed for a reason
RetryDelayFor(reason) == RetryDelay

----------------------------------------------------------------------------
(* App: session handlers *)

Session == [storage |-> storage, isAuthenticated |-> isAuthenticated]

\* HandleLogin that sets the flag and stores nothing
HandleLoginFlagOnly(s, token) == [s EXCEPT !.isAuthenticated = TRUE]

\* handleLogin: localStorage.setItem('auth_token', token); setIsAuthenticated(true)
HandleLogin(s, token) == [s EXCEPT !.storage = token, !.isAuthenticated = TRUE]

\* HandleLogout that removes the token and leaves the flag
HandleLogoutKeepsFlag(s) == [s EXCEPT !.storage = NoToken]

\* HandleLogout that flips the flag instead of clearing it
HandleLogoutToggles(s) ==
    [s EXCEPT !.storage = NoToken, !.isAuthenticated = ~s.isAuthenticated]

\* handleLogout: localStorage.removeItem('auth_token'); setIsAuthenticated(false)
HandleLogout(s) == [s EXCEPT !.storage = NoToken, !.isAuthenticated = FALSE]

\* StartupCheck that does not read the token
StartupCheckIgnoresToken(s) == [s EXCEPT !.isAuthenticated = FALSE]

\* the startup effect: setIsAuthenticated(!!localStorage.getItem('auth_token'))
StartupCheck(s) == [s EXCEPT !.isAuthenticated = (s.storage # NoToken)]

\* OnSubmit that hands the password to onLogin as the token
OnSubmitStoresSecret(s, data, stamp) ==
    IF CredentialsAccepted(data.email, data.password)
    THEN [session |-> HandleLogin(s, data.password),
          error |-> "",
          toast |-> "Login successful!"]
    ELSE [session |-> s,
          error |-> "Invalid email or password",
          toast |-> "Login failed"]

\* Login.onSubmit after its await: onLogin and a success toast for the demo
\* credentials; otherwise the error caught, shown and toasted
OnSubmit(s, data, stamp) ==
    IF CredentialsAccepted(data.email, data.password)
    THEN [session |-> HandleLogin(s, MockToken(stamp)),
          error |-> "",
          toast |-> "Login successful!"]
    ELSE [session |-> s,
          error |-> "Invalid email or password",
          toast |-> "Login failed"]

\* useState<Date>(new Date()): lastUpdate of a Dashboard that mounts is the
\* time of the mount
MountedAt == 0

\* onSuccess of the subscribed observer: setLastUpdate(new Date()); with no
\* observer subscribed nothing calls it, and on a Dashboard that is unmounted
\* (its observer not yet unsubscribed) the setter changes nothing
OnSuccess(last, obs) == IF obs > 0 /\ last # Off THEN 0 ELSE last

\* FormDisabled with the fields and the button left enabled
FormDisabledNever(l) == FALSE

\* Login form: disabled={loading} on both fields and on the submit button
FormDisabled(l) == l

\* what a flush of effects reads and writes: the session, the location and the
\* committed screen, the QueryCache and its timers, the state of the Dashboard
Page ==
    [storage |-> storage, isAuthenticated |-> isAuthenticated, path |-> path,
     screen |-> screen, startupPending |-> startupPending, query |-> query,
     retryer |-> retryer, inflight |-> inflight, observers |-> observers,
     timers |-> timers, lastUpdate |-> lastUpdate, view |-> view]

\* the last commit has passive effects to flush: App's startup effect, the
\* effect of a <Navigate>, the effect of useQuery of a Dashboard it mounted
\* (observer not subscribed yet) or the cleanup of that effect of a Dashboard
\* it unmounted (observer still subscribed)
Pending(s) ==
    \/ s.startupPending
    \/ s.screen.kind = "Navigate"
    \/ (s.screen.kind = "Dashboard" /\ s.observers = 0)
    \/ (s.screen.kind # "Dashboard" /\ s.observers > 0)

EffectsPending == Pending(Page)

\* the render of the element el: a Dashboard that it mounts has its observer
\* constructed and lastUpdate initialised
Rendered(s, el) ==
    IF el.kind = "Dashboard"
    THEN [s EXCEPT !.screen = el,
                   !.query = BuildQuery(s.query),
                   !.timers = BuildTimers(s.timers, s.query),
                   !.lastUpdate = MountedAt,
                   !.view = DashboardView(BuildQuery(s.query), FALSE)]
    ELSE [s EXCEPT !.screen = el]

\* One flush of the passive effects of the last commit.  After a commit that
\* mounted a Dashboard: the effect of useQuery subscribes the observer.
\* Otherwise: the cleanup of useQuery's effect of a Dashboard the commit
\* unmounted, then, children first, <Navigate> replaces the location and App's
\* mount effect reads the token; then one render and its commit.  The observer
\* of a Dashboard that this render mounts subscribes in the flush after.
Flush(s, prov) ==
    IF s.screen.kind = "Dashboard"
    THEN LET f == MountQuery(s.query, s.retryer, s.inflight, IsStale(s.query)) IN
         [s EXCEPT !.query = f.query,
                   !.retryer = f.retryer,
                   !.inflight = f.inflight,
                   !.observers = s.observers + 1,
                   !.timers = Requested(Subscribe(s.timers), s.observers + 1, prov,
                                        s.inflight, f.inflight),
                   !.view = DashboardView(f.query, TRUE)]
    ELSE LET to == IF s.screen.kind = "Navigate" THEN s.screen.to ELSE s.path
             old == [storage |-> s.storage, isAuthenticated |-> s.isAuthenticated]
             new == IF s.startupPending THEN StartupCheck(old) ELSE old
             cleanup == s.observers > 0
             u == [s EXCEPT !.path = to,
                            !.storage = new.storage,
                            !.isAuthenticated = new.isAuthenticated,
                            !.startupPending = FALSE,
                            !.observers = IF cleanup THEN s.observers - 1 ELSE s.observers,
                            !.retryer = IF cleanup THEN UnmountRetryer(s.retryer)
                                        ELSE s.retryer,
                            !.timers = IF cleanup THEN Unsubscribe(s.timers) ELSE s.timers]
         IN Rendered(u, Element(new.isAuthenticated, to))

\* every pending effect flushed: a flush may leave effects of its own commit
Flushed(s, prov) ==
    LET a == IF Pending(s) THEN Flush(s, prov) ELSE s
        b == IF Pending(a) THEN Flush(a, prov) ELSE a
    IN IF Pending(b) THEN Flush(b, prov) ELSE b

\* the step ends in s
Becomes(s) ==
    /\ storage' = s.storage
    /\ isAuthenticated' = s.isAuthenticated
    /\ path' = s.path
    /\ screen' = s.screen
    /\ startupPending' = s.startupPending
    /\ query' = s.query
    /\ retryer' = s.retryer
    /\ inflight' = s.inflight
    /\ observers' = s.observers
    /\ timers' = s.timers
    /\ lastUpdate' = s.lastUpdate
    /\ view' = s.view

\* A toast of react-hot-toast renders the <Toaster> of the root; a release
\* that measures the height of the toast it has rendered (in a ref callback,
\* during the commit) sets state once more, and React flushes the effects of
\* that commit before it renders again, within the same task.  No release is
\* pinned by the sources: either may be built.
ToastMeasures == BOOLEAN

----------------------------------------------------------------------------
(* Dashboard formatters (Dashboard.tsx 131-155)                            *)
(*                                                                         *)
(* A JavaScript number is held as its decimal numeral: a sign, the digits  *)
(* of the integer part (no leading zero, <<>> for 0) and the digits of the *)
(* fraction; NaN, Infinity and -Infinity are values of their own.  Results *)
(* are strings.  Intl.NumberFormat rounds the shortest decimal numeral of  *)
(* its argument, half away from zero.  toFixed rounds the binary64 value:  *)
(* where the decimal quotient lies exactly halfway between two results and *)
(* binary64 cannot hold it (1.005), the stored double lies on one side or  *)
(* the other, and ToFixed2 allows both neighbours; a halfway value that    *)
(* binary64 holds exactly (1.125) goes to the larger one.  The arguments   *)
(* have at most 7 significant digits and stay below 1e21, where toFixed    *)
(* switches to exponent notation.                                          *)

\* largest power of ten of the arguments: d.ddd * 10^(e-3), e in 0..MaxExp
MaxExp == 16

DigitChars == <<"0", "1", "2", "3", "4", "5", "6", "7", "8", "9">>

\* U+221E, the infinity sign of the en-US locale, written as its escape
InfinitySign == "\\u221E"

Zeros(n) == [i \in 1..n |-> 0]

RECURSIVE Trim(_)
Trim(ds) == IF ds # <<>> /\ Head(ds) = 0 THEN Trim(Tail(ds)) ELSE ds

Finite(neg, int, frac) == [kind |-> "finite", neg |-> neg, int |-> int, frac |-> frac]
NaN == [kind |-> "NaN", neg |-> FALSE, int |-> <<>>, frac |-> <<>>]
Infinity == [kind |-> "Infinity", neg |-> FALSE, int |-> <<>>, frac |-> <<>>]
NegInfinity == [kind |-> "Infinity", neg |-> TRUE, int |-> <<>>, frac |-> <<>>]

IsFinite(v) == v.kind = "finite"

\* v == 0 (true of -0 too)
IsZero(v) ==
    /\ IsFinite(v)
    /\ \A i \in 1..Len(v.int) : v.int[i] = 0
    /\ \A i \in 1..Len(v.frac) : v.frac[i] = 0

\* v > 0
GreaterThanZero(v) ==
    \/ v.kind = "Infinity" /\ ~v.neg
    \/ IsFinite(v) /\ ~v.neg /\ ~IsZero(v)

\* v < 0
LessThanZero(v) ==
    \/ v.kind = "Infinity" /\ v.neg
    \/ IsFinite(v) /\ v.neg /\ ~IsZero(v)

\* v >= 1ek
AtLeastPow10(v, k) ==
    \/ v.kind = "Infinity" /\ ~v.neg
    \/ IsFinite(v) /\ ~v.neg /\ Len(v.int) >= k + 1

\* v / 1ek
DivPow10(v, k) ==
    IF ~IsFinite(v) THEN v
    ELSE LET ds == Zeros(k) \o v.int
             n  == Len(ds)
         IN Finite(v.neg, Trim(SubSeq(ds, 1, n - k)), SubSeq(ds, n - k + 1, n) \o v.frac)

\* the number sig[1].sig[2]sig[3]... * 10^(e-3)
Scaled(neg, sig, e) ==
    LET s == e - 2 - Len(sig)
    IN IF s >= 0 THEN Finite(neg, sig \o Zeros(s), <<>>)
       ELSE DivPow10(Finite(neg, sig, <<>>), -s)

\* digits of floor(|v| * 100)
Hundredths(v) == v.int \o SubSeq(v.frac \o Zeros(2), 1, 2)

\* the third decimal and what follows it
ThirdDecimal(v) == (v.frac \o Zeros(3))[3]
Halfway(v) ==
    /\ ThirdDecimal(v) = 5
    /\ \A i \in 4..Len(v.frac) : v.frac[i] = 0

\* a halfway value is a binary fraction iff it ends in .125, .375, .625, .875
HalfwayInBinary64(v) ==
    SubSeq(v.frac, 1, 2) \in {<<1, 2>>, <<3, 7>>, <<6, 2>>, <<8, 7>>}

RECURSIVE Inc(_)
Inc(ds) ==
    IF ds = <<>> THEN <<1>>
    ELSE LET n == Len(ds) IN
         IF ds[n] = 9 THEN Inc(SubSeq(ds, 1, n - 1)) \o <<0>>
         ELSE SubSeq(ds, 1, n - 1) \o <<ds[n] + 1>>

\* |v| in hundredths, rounded half away from zero
RoundHalfExpand(v) == IF ThirdDecimal(v) >= 5 THEN Inc(Hundredths(v)) ELSE Hundredths(v)

RECURSIVE Text(_)
Text(ds) == IF ds = <<>> THEN "" ELSE DigitChars[Head(ds) + 1] \o Text(Tail(ds))

\* integer digits with grouping separators
RECURSIVE Grouped(_)
Grouped(ds) ==
    LET n == Len(ds) IN
    IF n <= 3 THEN Text(ds)
    ELSE Grouped(SubSeq(ds, 1, n - 3)) \o "," \o Text(SubSeq(ds, n - 2, n))

IntegerPart(h) == Trim(SubSeq(h, 1, Len(h) - 2))
FractionPart(h) == SubSeq(h, Len(h) - 1, Len(h))
OrZero(t) == IF t = "" THEN "0" ELSE t

\* ToFixed2 that cuts the digits after the second decimal
ToFixed2Truncates(v) ==
    IF v.kind = "NaN" THEN {"NaN"}
    ELSE IF v.kind = "Infinity" THEN {IF v.neg THEN "-Infinity" ELSE "Infinity"}
    ELSE {(IF v.neg /\ ~IsZero(v) THEN "-" ELSE "")
            \o OrZero(Text(IntegerPart(Hundredths(v)))) \o "." \o Text(FractionPart(Hundredths(v)))}

\* Number.prototype.toFixed(2): the possible results
ToFixed2(v) ==
    IF v.kind = "NaN" THEN {"NaN"}
    ELSE IF v.kind = "Infinity" THEN {IF v.neg THEN "-Infinity" ELSE "Infinity"}
    ELSE LET hs == IF Halfway(v) /\ ~HalfwayInBinary64(v)
                   THEN {Hundredths(v), Inc(Hundredths(v))}
                   ELSE {RoundHalfExpand(v)}
         IN {(IF v.neg /\ ~IsZero(v) THEN "-" ELSE "")
               \o OrZero(Text(IntegerPart(h))) \o "." \o Text(FractionPart(h)) : h \in hs}

\* formatCurrency: Intl.NumberFormat('en-US', USD, 2 fraction digits).format
FormatCurrency(v) ==
    IF v.kind = "NaN" THEN "$NaN"
    ELSE IF v.kind = "Infinity" THEN (IF v.neg THEN "-$" ELSE "$") \o InfinitySign
    ELSE LET h == RoundHalfExpand(v)
         IN (IF v.neg THEN "-$" ELSE "$")
              \o OrZero(Grouped(IntegerPart(h))) \o "." \o Text(FractionPart(h))

\* FormatLargeNumber with the M tier starting at 1e5
FormatLargeNumberLowM(v) ==
    IF AtLeastPow10(v, 12) THEN {"$" \o t \o "T" : t \in ToFixed2(DivPow10(v, 12))}
    ELSE IF AtLeastPow10(v, 9) THEN {"$" \o t \o "B" : t \in ToFixed2(DivPow10(v, 9))}
    ELSE IF AtLeastPow10(v, 5) THEN {"$" \o t \o "M" : t \in ToFixed2(DivPow10(v, 6))}
    ELSE {FormatCurrency(v)}

\* FormatLargeNumber that tests the tiers bottom-up
FormatLargeNumberBottomUp(v) ==
    IF AtLeastPow10(v, 6) THEN {"$" \o t \o "M" : t \in ToFixed2(DivPow10(v, 6))}
    ELSE IF AtLeastPow10(v, 9) THEN {"$" \o t \o "B" : t \in ToFixed2(DivPow10(v, 9))}
    ELSE IF AtLeastPow10(v, 12) THEN {"$" \o t \o "T" : t \in ToFixed2(DivPow10(v, 12))}
    ELSE {FormatCurrency(v)}

\* formatLargeNumber: the possible results
FormatLargeNumber(v) ==
    IF AtLeastPow10(v, 12) THEN {"$" \o t \o "T" : t \in ToFixed2(DivPow10(v, 12))}
    ELSE IF AtLeastPow10(v, 9) THEN {"$" \o t \o "B" : t \in ToFixed2(DivPow10(v, 9))}
    ELSE IF AtLeastPow10(v, 6) THEN {"$" \o t \o "M" : t \in ToFixed2(DivPow10(v, 6))}
    ELSE {FormatCurrency(v)}

\* GetPriceChangeColor that counts zero as a gain
GetPriceChangeColorZeroGain(change) ==
    IF GreaterThanZero(change) \/ IsZero(change) THEN "success.main"
    ELSE IF LessThanZero(change) THEN "error.main"
    ELSE "text.secondary"

\* getPriceChangeColor
GetPriceChangeColor(change) ==
    IF GreaterThanZero(change) THEN "success.main"
    ELSE IF LessThanZero(change) THEN "error.main"
    ELSE "text.secondary"

\* 24h Change cell: change24h > 0 ? <TrendingUp /> : <TrendingDown />
PriceChangeIcon(change) ==
    IF GreaterThanZero(change) THEN "TrendingUp" ELSE "TrendingDown"

\* arguments of the formatters
Significands ==
    {<<1>>, <<1, 5>>, <<1, 0, 0, 5>>, <<1, 1, 2, 5>>, <<5, 2, 3>>,
     <<9, 9, 9, 9, 9, 9>>, <<4, 3, 2, 5, 0, 7, 5>>}
Numbers ==
    {Scaled(neg, sig, e) : neg \in BOOLEAN, sig \in Significands, e \in 0..MaxExp}
        \cup {Finite(FALSE, <<>>, <<>>), Finite(TRUE, <<>>, <<>>), NaN, Infinity, NegInfinity}

NoRender == [fn |-> "none", input |-> Finite(FALSE, <<>>, <<>>), output |-> ""]

----------------------------------------------------------------------------
(* Initial state: the first page load, nothing persisted *)

\* a page just loaded, no token persisted: the state after construction, and
\* again after a reload without a session, l page loads and p waits or timed
\* submissions into the behaviour
PageInitAt(l, p) ==
    /\ storage = NoToken
    /\ isAuthenticated = FALSE
    /\ path \in Paths
    /\ screen = Element(FALSE, path)
    /\ startupPending = TRUE
    /\ loading = FALSE
    /\ error = ""
    /\ formErrors = NoErrors
    /\ form = NoForm
    /\ pendingAuth = NoSubmit
    /\ toast = NoToast
    /\ loads = l
    /\ provider \in {"mock", "remote"}
    /\ query = NoQuery
    /\ retryer = NoRetryer
    /\ inflight = 0
    /\ observers = 0
    /\ timers = NoTimers
    /\ paced = p
    /\ rejected = 0
    /\ focused = TRUE
    /\ online = TRUE
    /\ lastUpdate = Off
    /\ view = NoView

PageInit == PageInitAt(1, 0)

Init == PageInit /\ render = NoRender

\* the formatters are about to be applied to one number; they read nothing of
\* the page
FormatInit ==
    /\ PageInit
    /\ provider = "mock"
    /\ path = "/dashboard"
    /\ render \in {[NoRender EXCEPT !.input = v] : v \in Numbers}

----------------------------------------------------------------------------
(* Actions *)

\* The page is loaded again at p: memory is reset (React state, QueryClient,
\* timers, toasts), localStorage is kept.
PageLoad(p) ==
    /\ loads < MaxLoads
    /\ loads' = loads + 1
    /\ isAuthenticated' = FALSE
    /\ path' = p
    /\ screen' = Element(FALSE, p)
    /\ startupPending' = TRUE
    /\ loading' = FALSE
    /\ error' = ""
    /\ formErrors' = NoErrors
    /\ form' = NoForm
    /\ pendingAuth' = NoSubmit
    /\ toast' = NoToast
    /\ query' = NoQuery
    /\ retryer' = NoRetryer
    /\ inflight' = 0
    /\ observers' = 0
    /\ timers' = NoTimers
    /\ lastUpdate' = Off
    /\ view' = NoView
    /\ UNCHANGED <<storage, provider, render, paced, rejected, focused, online>>

\* React flushes the passive effects of the last commit.
FlushEffects ==
    /\ EffectsPending
    /\ Becomes(Flush(Page, provider))
    /\ UNCHANGED <<loginVars, toast, loads, provider, render, paced, rejected, focused, online>>

\* The user changes the e-mail field.
ChangeEmail(email) ==
    /\ screen.kind = "Login"
    /\ ~EffectsPending
    /\ ~FormDisabled(loading)
    /\ email # form.email
    /\ LET c == OnChangeEmail(form, formErrors, email) IN
       /\ form' = c.form
       /\ formErrors' = c.errors
    /\ UNCHANGED <<appVars, loading, error, pendingAuth, toast, loads, provider, render,
                   lastUpdate, view, cacheVars, paced, rejected, focused, online>>

\* The user changes the password field.
ChangePassword(password) ==
    /\ screen.kind = "Login"
    /\ ~EffectsPending
    /\ ~FormDisabled(loading)
    /\ password # form.password
    /\ LET c == OnChangePassword(form, formErrors, password) IN
       /\ form' = c.form
       /\ formErrors' = c.errors
    /\ UNCHANGED <<appVars, loading, error, pendingAuth, toast, loads, provider, render,
                   lastUpdate, view, cacheVars, paced, rejected, focused, online>>

\* The Sign In button, on a form that holds email and password.  The browser
\* checks the constraints of the fields first and dispatches no submit event
\* when one fails; else handleSubmit validates the fields by their registered
\* rules and runs onSubmit up to its await when they pass.  handleSubmit sets
\* formState.isSubmitted when it is through: at once on fields that fail, and
\* after onSubmit has settled on fields that pass.
Submit(email, password) ==
    /\ screen.kind = "Login"
    /\ ~EffectsPending
    /\ ~FormDisabled(loading)
    /\ form.email = email
    /\ form.password = password
    /\ IF TypeMismatch(email)
       THEN UNCHANGED <<loginVars, timers, paced>>
       ELSE LET errs == Validate(email, password) IN
            /\ formErrors' = errs
            /\ form' = IF errs = NoErrors THEN form ELSE [form EXCEPT !.isSubmitted = TRUE]
            /\ IF errs = NoErrors
               THEN /\ paced < MaxPaced
                    /\ paced' = paced + 1
                    /\ loading' = TRUE
                    /\ error' = ""
                    /\ pendingAuth' = <<[email |-> email, password |-> password]>>
                    /\ timers' = [timers EXCEPT !.auth = LoginDelay]
               ELSE UNCHANGED <<loading, error, pendingAuth, timers, paced>>
    /\ UNCHANGED <<appVars, toast, loads, provider, render, lastUpdate, view, queryVars, rejected, focused, online>>

\* onSubmit resumes after its 1 s timer: the credential check and what follows
\* it, outside any batch of React.  When onLogin ran, setIsAuthenticated renders
\* at once: Login unmounts and <Navigate> mounts.  The toast that follows
\* renders the <Toaster> of the same root, and React flushes the pending
\* effects before that render: <Navigate> replaces the location and the element
\* of the new location is rendered and committed, all within this callback.
\* The observer of a Dashboard mounted so subscribes in the flush after, or,
\* where the toast is measured, within this callback too.  handleSubmit then
\* sets formState.isSubmitted, on a Login that is still mounted.
AuthTimerAt(stamps) ==
    /\ pendingAuth # NoSubmit
    /\ timers.auth = 0
    /\ \E stamp \in stamps, measured \in ToastMeasures :
         LET r == OnSubmit(Session, pendingAuth[1], stamp)
             accepted == r.session.isAuthenticated
             s == [Page EXCEPT !.storage = r.session.storage,
                               !.isAuthenticated = accepted,
                               !.timers = [timers EXCEPT !.auth = Off]]
             a == Rendered(s, Element(accepted, path))
             b == IF Pending(a) THEN Flush(a, provider) ELSE a
         IN /\ Becomes(IF measured THEN Flushed(b, provider) ELSE b)
            /\ error' = r.error
            /\ toast' = r.toast
            /\ formErrors' = IF accepted THEN NoErrors ELSE formErrors
            /\ form' = IF accepted THEN NoForm ELSE [form EXCEPT !.isSubmitted = TRUE]
    /\ loading' = FALSE
    /\ pendingAuth' = NoSubmit
    /\ UNCHANGED <<loads, provider, render, paced, rejected, focused, online>>

\* Date.now() gives any of the stamps explored
AuthTimer == AuthTimerAt(1..MaxStamp)

\* Dashboard.handleLogout: onLogout, toast; the render that follows unmounts
\* the Dashboard, and with it the state lastUpdate.  The observer stays
\* subscribed until the cleanup of useQuery's effect runs: in the next flush,
\* or, where the toast is measured, within the click, together with the
\* redirect of <Navigate>.
Logout ==
    /\ screen.kind = "Dashboard"
    /\ ~EffectsPending
    /\ \E measured \in ToastMeasures :
         LET new == HandleLogout(Session)
             s == [Page EXCEPT !.storage = new.storage,
                               !.isAuthenticated = new.isAuthenticated,
                               !.lastUpdate = Off,
                               !.view = NoView]
             a == Rendered(s, Element(new.isAuthenticated, path))
         IN Becomes(IF measured THEN Flushed(a, provider) ELSE a)
    /\ toast' = "Logged out successfully"
    /\ UNCHANGED <<loginVars, loads, provider, render, paced, rejected, focused, online>>

\* Dashboard.handleRefresh: refetch(), toast.
Refresh ==
    /\ screen.kind = "Dashboard"
    /\ ~EffectsPending
    /\ LET f == Refetch(query, retryer, inflight) IN
       /\ query' = f.query
       /\ retryer' = f.retryer
       /\ inflight' = f.inflight
       /\ timers' = Requested(timers, observers, provider, inflight, f.inflight)
       /\ view' = Shown(view, f.query, observers, TRUE)
    /\ toast' = "Data refreshed"
    /\ UNCHANGED <<appVars, loginVars, loads, provider, render, lastUpdate, observers, paced, rejected, focused, online>>

\* OnAnalyze that also asks the Query for a fetch
OnAnalyzeFetches(s, q, t, symbol) ==
    {[session |-> s, query |-> ReduceFetch(q), toast |-> out] :
        out \in {t, "Analyzing " \o symbol \o "..."}}

\* The onClick of a row's Analyze button: toast.info(`Analyzing ${symbol}...`)
\* and nothing else.  react-hot-toast is not part of the sources: where its
\* toast has no info method the call throws inside the event handler and no
\* toast appears, where it has one the toast appears.
OnAnalyze(s, q, t, symbol) ==
    {[session |-> s, query |-> q, toast |-> out] :
        out \in {t, "Analyzing " \o symbol \o "..."}}

\* A click on the Analyze button of one of the rendered rows.
AnalyzeRow(rows) ==
    /\ screen.kind = "Dashboard"
    /\ ~EffectsPending
    /\ \E i \in rows \cap 1..Len(view.rows) :
         \E r \in OnAnalyze(Session, query, toast, view.rows[i]) :
            /\ storage' = r.session.storage
            /\ isAuthenticated' = r.session.isAuthenticated
            /\ query' = r.query
            /\ toast' = r.toast
    /\ UNCHANGED <<path, screen, startupPending, loginVars, loads, provider, render, lastUpdate,
                   view, retryer, inflight, observers, timers, paced, rejected, focused, online>>

Analyze == AnalyzeRow(1..Len(CryptoRecords))

\* The refetchInterval timer of a subscribed observer fires, and runs on; its
\* callback fetches while the page is focused.
Tick ==
    /\ observers > 0
    /\ timers.interval = 0
    /\ LET f == IF IntervalFetches(focused)
                THEN TickFetch(query, retryer, inflight)
                ELSE Fetching(query, retryer, inflight)
           t == [timers EXCEPT !.interval = RefetchInterval]
       IN /\ query' = f.query
          /\ retryer' = f.retryer
          /\ inflight' = f.inflight
          /\ timers' = Requested(t, observers, provider, inflight, f.inflight)
          /\ view' = Shown(view, f.query, observers, screen.kind = "Dashboard")
    /\ UNCHANGED <<appVars, loginVars, toast, loads, provider, render, lastUpdate, observers, paced, rejected, focused, online>>

\* The pending queryFn call resolves with the records.
FetchResolves ==
    /\ retryer.phase = "attempt"
    /\ "ok" \in Outcomes(provider)
    /\ timers.fetch \in {0, Off}
    /\ query' = ReduceSuccess(query, CryptoRecords)
    /\ lastUpdate' = OnSuccess(lastUpdate, observers)
    /\ view' = Shown(view, query', observers, screen.kind = "Dashboard")
    /\ retryer' = [retryer EXCEPT !.phase = "none"]
    /\ inflight' = inflight - 1
    /\ timers' = [Updated(timers, observers) EXCEPT !.fetch = Off]
    /\ UNCHANGED <<appVars, loginVars, toast, loads, provider, render, observers, paced, rejected, focused, online>>

\* The pending queryFn call rejects for a reason: retry after the retry delay,
\* or give up.
FetchRejects(reason) ==
    /\ retryer.phase = "attempt"
    /\ "fail" \in Outcomes(provider)
    /\ timers.fetch \in {0, Off}
    /\ rejected < MaxRejected
    /\ rejected' = rejected + 1
    /\ inflight' = inflight - 1
    /\ IF ShouldRetry(retryer)
       THEN /\ retryer' = [retryer EXCEPT !.phase = "sleep",
                                          !.failureCount = @ + 1,
                                          !.delay = RetryDelayFor(reason),
                                          !.reason = reason,
                                          !.failed = @ + 1]
            /\ query' = ReduceFailed(query)
            /\ timers' = [Updated(timers, observers) EXCEPT
                            !.fetch = Off, !.sleep = RetryDelayFor(reason)]
       ELSE /\ retryer' = [retryer EXCEPT !.phase = "none", !.reason = reason,
                                          !.failed = @ + 1]
            /\ query' = ReduceError(query, reason)
            /\ timers' = [Updated(timers, observers) EXCEPT !.fetch = Off]
    /\ view' = Shown(view, query', observers, screen.kind = "Dashboard")
    /\ UNCHANGED <<appVars, loginVars, toast, loads, provider, render, lastUpdate, observers, paced,
                   focused, online>>

\* timers after the Retryer went on from n to m pending queryFn calls and the
\* Query from q to p
Resumed(t, obs, prov, n, m, q, p) ==
    IF m > n THEN [(IF p # q THEN Updated(t, obs) ELSE t) EXCEPT !.fetch = FetchDelay(prov)]
    ELSE IF p # q THEN Updated(t, obs) ELSE t

\* The retryDelay timer fires: the Retryer pauses while the page is hidden or
\* offline; else it runs the next attempt, unless retries were cancelled
\* meanwhile, in which case the fetch rejects with the last error.
RetryTimer ==
    /\ retryer.phase = "sleep"
    /\ timers.sleep = 0
    /\ IF ShouldPause(focused, online)
       THEN /\ retryer' = [retryer EXCEPT !.phase = "paused", !.delay = 0]
            /\ query' = ReducePause(query)
            /\ timers' = [Updated(timers, observers) EXCEPT !.sleep = Off]
            /\ UNCHANGED inflight
       ELSE LET f == Resume(query, retryer, inflight) IN
            /\ retryer' = f.retryer
            /\ query' = f.query
            /\ inflight' = f.inflight
            /\ timers' = Resumed([timers EXCEPT !.sleep = Off], observers, provider,
                                  inflight, f.inflight, query, f.query)
    /\ view' = Shown(view, query', observers, screen.kind = "Dashboard")
    /\ UNCHANGED <<appVars, loginVars, toast, loads, provider, render, lastUpdate, observers, paced, rejected, focused, online>>

\* The cacheTime timer of an unobserved Query fires: the Query is removed,
\* unless it is fetching, in which case the timer is started again.
CacheTimeout ==
    /\ query.exists
    /\ observers = 0
    /\ timers.gc = 0
    /\ IF query.isFetching
       THEN /\ timers' = [timers EXCEPT !.gc = CacheTime]
            /\ UNCHANGED <<query, retryer>>
       ELSE /\ query' = NoQuery
            /\ retryer' = NoRetryer
            /\ timers' = [timers EXCEPT !.gc = Off]
    /\ UNCHANGED <<appVars, loginVars, toast, loads, provider, render, lastUpdate, view,
                   inflight, observers, paced, rejected, focused, online>>

\* QueryClient.mount subscribed to the focusManager and the onlineManager (the
\* effect of QueryClientProvider, flushed with App's mount effect): an event
\* that leaves the page focused and online reaches the Query
Heard(focus, onl) == ~startupPending /\ focus /\ onl

\* what the Query does on a focus or online event that reached it
Noticed ==
    LET f == OnFocus(query, retryer, inflight, observers) IN
    /\ query' = f.query
    /\ retryer' = f.retryer
    /\ inflight' = f.inflight
    /\ timers' = Resumed(timers, observers, provider, inflight, f.inflight, query, f.query)
    /\ view' = Shown(view, f.query, observers, screen.kind = "Dashboard")

\* The page is hidden (visibilitychange to hidden).
Hide ==
    /\ focused
    /\ focused' = FALSE
    /\ UNCHANGED <<appVars, loginVars, toast, loads, provider, render, lastUpdate, view,
                   cacheVars, paced, rejected, online>>

\* The page becomes visible, or the window gets the focus (visibilitychange,
\* focus).
Focus ==
    /\ focused' = TRUE
    /\ IF Heard(TRUE, online) THEN Noticed
       ELSE UNCHANGED <<query, retryer, inflight, timers, view>>
    /\ UNCHANGED <<appVars, loginVars, toast, loads, provider, render, lastUpdate,
                   observers, paced, rejected, online>>

\* The browser goes offline.
Offline ==
    /\ online
    /\ online' = FALSE
    /\ UNCHANGED <<appVars, loginVars, toast, loads, provider, render, lastUpdate, view,
                   cacheVars, paced, rejected, focused>>

\* The browser is online again.
Online ==
    /\ ~online
    /\ online' = TRUE
    /\ IF Heard(focused, TRUE) THEN Noticed
       ELSE UNCHANGED <<query, retryer, inflight, timers, view>>
    /\ UNCHANGED <<appVars, loginVars, toast, loads, provider, render, lastUpdate,
                   observers, paced, rejected, focused>>

\* the waits of a user explored: up to an entry 40 s old at the next mount,
\* and past staleTime
Waits == {39000, 5 * 60 * 1000}
\* an age d later, kept up to staleTime
Aged(age, d) ==
    IF age = Off THEN Off
    ELSE IF age + d >= StaleTime THEN StaleTime ELSE age + d

\* Time passes up to the next timer.
Elapse ==
    /\ ~EffectsPending
    /\ Running(timers) # {}
    /\ \E d \in Running(timers) :
         /\ d > 0
         /\ \A rem \in Running(timers) : d <= rem
         /\ timers' = [k \in TimerNames |->
                         IF timers[k] = Off THEN Off ELSE timers[k] - d]
         /\ query' = [query EXCEPT !.dataAge = Aged(@, d)]
         /\ lastUpdate' = Aged(lastUpdate, d)
    /\ UNCHANGED <<appVars, loginVars, toast, loads, provider, render, view, retryer, inflight,
                   observers, paced, rejected, focused, online>>

\* The user lets d pass, with every running timer still to fire after it.
Wait(d) ==
    /\ ~EffectsPending
    /\ paced < MaxPaced
    /\ paced' = paced + 1
    /\ \A rem \in Running(timers) : d < rem
    /\ Running(timers) # {} \/ query.dataAge # Off
    /\ timers' = [k \in TimerNames |-> IF timers[k] = Off THEN Off ELSE timers[k] - d]
    /\ query' = [query EXCEPT !.dataAge = Aged(@, d)]
    /\ lastUpdate' = Aged(lastUpdate, d)
    /\ UNCHANGED <<appVars, loginVars, toast, loads, provider, render, view, retryer, inflight,
                   observers, rejected, focused, online>>

\* the render evaluates formatCurrency(value)
FormatCurrencyCall ==
    /\ render.fn = "none"
    /\ render' = [render EXCEPT !.fn = "formatCurrency",
                                !.output = FormatCurrency(render.input)]
    /\ UNCHANGED pageVars

\* the render evaluates formatLargeNumber(value)
FormatLargeNumberCall ==
    /\ render.fn = "none"
    /\ \E out \in FormatLargeNumber(render.input) :
          render' = [render EXCEPT !.fn = "formatLargeNumber", !.output = out]
    /\ UNCHANGED pageVars

\* the render evaluates getPriceChangeColor(change)
GetPriceChangeColorCall ==
    /\ render.fn = "none"
    /\ render' = [render EXCEPT !.fn = "getPriceChangeColor",
                                !.output = GetPriceChangeColor(render.input)]
    /\ UNCHANGED pageVars

\* the render picks the icon of the 24h Change cell
PriceChangeIconCall ==
    /\ render.fn = "none"
    /\ render' = [render EXCEPT !.fn = "priceChangeIcon",
                                !.output = PriceChangeIcon(render.input)]
    /\ UNCHANGED pageVars

Next ==
    \/ \E p \in Paths : PageLoad(p)
    \/ FlushEffects
    \/ \E e \in Emails : ChangeEmail(e)
    \/ \E pw \in Passwords : ChangePassword(pw)
    \/ \E e \in Emails, pw \in Passwords : Submit(e, pw)
    \/ AuthTimer
    \/ Logout
    \/ Refresh
    \/ Analyze
    \/ Tick
    \/ FetchResolves
    \/ \E reason \in FailureReasons : FetchRejects(reason)
    \/ RetryTimer
    \/ CacheTimeout
    \/ Hide
    \/ Focus
    \/ Offline
    \/ Online
    \/ Elapse
    \/ \E d \in Waits : Wait(d)
    \/ FormatCurrencyCall
    \/ FormatLargeNumberCall
    \/ GetPriceChangeColorCall
    \/ PriceChangeIconCall

\* The application as shipped: the mock queryFn, which never rejects and needs
\* no network.  The user presses Analyze on the first or the last row; the
\* browser stays online.
ShippedNext ==
    \/ \E p \in Paths : PageLoad(p)
    \/ FlushEffects
    \/ \E e \in Emails : ChangeEmail(e)
    \/ \E pw \in Passwords : ChangePassword(pw)
    \/ \E e \in Emails, pw \in Passwords : Submit(e, pw)
    \/ AuthTimer
    \/ Logout
    \/ Refresh
    \/ AnalyzeRow({1, Len(CryptoRecords)})
    \/ Tick
    \/ FetchResolves
    \/ CacheTimeout
    \/ Hide
    \/ Focus
    \/ Elapse
    \/ \E d \in Waits : Wait(d)

\* The application on a remote source that may reject for one of the reasons,
\* used by a user who types the demo credentials only and does not press
\* Analyze.  The slices start at the last page load explored, so none follows.
SessionSteps(reasons) ==
    \/ FlushEffects
    \/ ChangeEmail(AdminEmail)
    \/ ChangePassword(Admin123)
    \/ Submit(AdminEmail, Admin123)
    \/ AuthTimerAt({1})
    \/ Logout
    \/ Refresh
    \/ Tick
    \/ FetchResolves
    \/ \E reason \in reasons : FetchRejects(reason)
    \/ RetryTimer
    \/ CacheTimeout
    \/ Elapse

\* two sessions and the waits of the user, one reason of rejection; the page
\* stays visible and the browser may go offline
RemoteNext ==
    \/ SessionSteps({"network error"})
    \/ \E d \in Waits : Wait(d)
    \/ Offline
    \/ Online
\* one session, both reasons; the browser stays online and the page may be
\* hidden
BackoffNext == SessionSteps(FailureReasons) \/ Hide \/ Focus
\* one session, one reason; the page may be hidden and the browser may go
\* offline
SessionNext == SessionSteps({"network error"}) \/ Hide \/ Focus \/ Offline \/ Online

FormatNext ==
    \/ FormatCurrencyCall
    \/ FormatLargeNumberCall
    \/ GetPriceChangeColorCall
    \/ PriceChangeIconCall

Spec == Init /\ [][Next]_vars

ShippedInit == Init /\ provider = "mock"
\* the remote slices start at the last page load explored, no session
\* persisted: with two timed submissions left (a login, and a second one on
\* what the first session left in the cache), or with one
EitherInit == PageInitAt(MaxLoads, MaxPaced - 2) /\ render = NoRender
RemoteInit == EitherInit /\ provider = "remote"
SessionInit == PageInitAt(MaxLoads, MaxPaced - 1) /\ render = NoRender /\ provider = "remote"

ShippedSpec == ShippedInit /\ [][ShippedNext]_vars
RemoteSpec == RemoteInit /\ [][RemoteNext]_vars
BackoffSpec == SessionInit /\ [][BackoffNext]_vars
SessionSpec == SessionInit /\ [][SessionNext]_vars

\* Either source under the steps of the remote slice: what separates the
\* shipped queryFn from a rejecting one is Outcomes alone.
EitherSpec == EitherInit /\ [][RemoteNext]_vars

FormatSpec == FormatInit /\ [][FormatNext]_vars

\* Every attempt settles, every due timer fires (a retry delay that ends on a
\* hidden or offline page pauses the Retryer, a tick on a hidden page fetches
\* nothing), time passes and React flushes its effects.  Nothing makes the
\* page visible or the browser online again.
FairSessionSpec ==
    /\ SessionSpec
    /\ WF_vars(FetchResolves \/ \E reason \in FailureReasons : FetchRejects(reason))
    /\ WF_vars(RetryTimer)
    /\ WF_vars(Tick)
    /\ WF_vars(CacheTimeout)
    /\ WF_vars(AuthTimerAt({1}))
    /\ WF_vars(Elapse)
    /\ WF_vars(FlushEffects)
\* React always flushes the effects of a commit.
FairShippedSpec == ShippedSpec /\ WF_vars(FlushEffects)

----------------------------------------------------------------------------
(* Properties *)

DemoLogin == [email |-> AdminEmail, password |-> Admin123]
AuthAfterStartup ==
    (IF startupPending THEN StartupCheck(Session) ELSE Session).isAuthenticated
AllRoutesReach(auth, kind) ==
    \A p \in Paths : Resolve(auth, p, RedirectFuel) = kind

\* C1: the Dashboard is on screen only while the session is authenticated (flag
\* set and token persisted) and the Login screen only while the flag is unset;
\* with a token persisted every route leads to the Dashboard (once the startup
\* check, if still pending, has read it), and with no token persisted every
\* route leads to the Login screen and the Dashboard is not shown.
C1_ScreenFollowsSession ==
    /\ screen.kind = "Dashboard" => isAuthenticated /\ storage # NoToken
    /\ screen.kind = "Login" => ~isAuthenticated
    /\ storage # NoToken => AllRoutesReach(AuthAfterStartup, "Dashboard")
    /\ storage = NoToken =>
         /\ screen.kind # "Dashboard"
         /\ AllRoutesReach(isAuthenticated, "Login")
         /\ AllRoutesReach(AuthAfterStartup, "Login")

\* C1 witness: the Dashboard shown after a reload, from the persisted token.
C1_Witness ==
    screen.kind = "Dashboard" /\ loads > 1 /\ toast = NoToast /\ storage \in Tokens

\* C2: at most one queryFn call for 'cryptoData' is pending at any time, and a
\* request (mount, interval tick, manual refresh) that arrives while the query
\* is fetching starts no call: it leaves the number of pending calls and the
\* query state as they are.
C2_SingleFlight ==
    /\ [](inflight <= 1 /\ (inflight = 1 => query.isFetching /\ retryer.phase = "attempt"))
    /\ [][(query.isFetching /\ (Tick \/ Refresh \/ FlushEffects))
            => (inflight' = inflight /\ query' = query)]_vars

\* C2 witness: a manual refresh was made on a Dashboard whose mount fetch is
\* still pending (no data yet); it joined that fetch, and one call is pending.
C2_Witness ==
    /\ retryer.joined
    /\ screen.kind = "Dashboard"
    /\ toast = "Data refreshed"
    /\ query.data = NoData
    /\ query.isFetching
    /\ inflight = 1

\* C3 as stated: after 3 consecutive failed attempts of a fetch the entry is in
\* status error with a failure count of 3, the fetch over.
C3_ErrorAtThirdFailure ==
    retryer.failed = 3 =>
        /\ query.status = "error"
        /\ ~query.isFetching
        /\ query.fetchFailureCount = 3

\* C3 amended: retry 3 means 3 retries after the first attempt.  While retries
\* are not cancelled, a running fetch has failed at most 3 times, its failure
\* count is the number of its failed attempts and a retry waits 1000 ms; a
\* rejected attempt ends the fetch in status error exactly when it is the 4th,
\* and the failure count is then 4.
C3_ErrorAtFourthFailure ==
    /\ [](retryer.phase = "sleep" => retryer.delay = 1000)
    /\ [](retryer.phase # "none" /\ ~retryer.cancelRetry =>
            /\ query.isFetching
            /\ retryer.failed <= 3
            /\ query.fetchFailureCount = retryer.failed)
    /\ [][((\E reason \in FailureReasons : FetchRejects(reason)) /\ ~retryer.cancelRetry) =>
            /\ query'.fetchFailureCount = retryer'.failed
            /\ (query'.status = "error" /\ ~query'.isFetching) <=> (retryer'.failed = 4)
            /\ retryer'.failed < 4 => (query'.isFetching /\ retryer'.phase = "sleep")]_vars

\* C3 witness: a fetch gave up after its 4th failed attempt.
C3_Witness ==
    /\ query.status = "error"
    /\ ~query.isFetching
    /\ retryer.failed = 4
    /\ query.fetchFailureCount = 4
    /\ ~retryer.cancelRetry

\* C4: every rejected attempt adds one to the failure count, and every
\* resolved attempt sets it to 0 with status success.
C4_FailureCount ==
    [][/\ (\E reason \in FailureReasons : FetchRejects(reason)) =>
            query'.fetchFailureCount = query.fetchFailureCount + 1
       /\ FetchResolves =>
            /\ query'.fetchFailureCount = 0
            /\ query'.status = "success"
            /\ ~query'.isFetching]_vars

\* C4 witness: a fetch succeeded on a retry, after failed attempts.
C4_Witness ==
    /\ query.status = "success"
    /\ query.fetchFailureCount = 0
    /\ retryer.failed > 0
    /\ retryer.phase = "none"

\* C5: a logout clears the flag and the persisted token, after which every
\* route leads to the Login screen; an accepted login stores a token, after
\* which every route leads to the Dashboard; the committed element is always
\* the one the route table gives for the current flag and location.
C5_LogoutThenLogin ==
    /\ [](screen = Element(isAuthenticated, path))
    /\ [][Logout =>
            /\ isAuthenticated
            /\ storage' = NoToken
            /\ ~isAuthenticated'
            /\ AllRoutesReach(isAuthenticated', "Login")]_vars
    /\ [][(AuthTimer /\ pendingAuth = <<DemoLogin>>) =>
            /\ storage' \in Tokens
            /\ isAuthenticated'
            /\ AllRoutesReach(isAuthenticated', "Dashboard")]_vars

\* C5 witness: after a logout the router has brought up the Login screen.
C5_Witness ==
    /\ toast = "Logged out successfully"
    /\ screen.kind = "Login"
    /\ storage = NoToken
    /\ ~isAuthenticated

\* C6: a page load that finds a token persisted leads to the Dashboard; while
\* a token is persisted no credentials are submitted or validated; only a
\* logout removes the token, and only a logout or a page load clears the flag.
C6_ReloadKeepsSession ==
    /\ (startupPending /\ storage # NoToken) ~> (screen.kind = "Dashboard")
    /\ [][storage # NoToken =>
            ~(AuthTimer \/ \E e \in Emails, pw \in Passwords : Submit(e, pw))]_vars
    /\ [][(storage # NoToken /\ storage' = NoToken) => Logout]_vars
    /\ [][(isAuthenticated /\ ~isAuthenticated') =>
            (Logout \/ \E p \in Paths : PageLoad(p))]_vars

\* C6 witness: the Dashboard after a reload, with the token of the login
\* before it and no login since.
C6_Witness ==
    /\ loads > 1
    /\ storage \in Tokens
    /\ isAuthenticated
    /\ screen.kind = "Dashboard"
    /\ toast # "Login successful!"

\* C7: a credential check that rejects (any submission but the demo pair)
\* writes no token, leaves the flag unset and the location and screen as they
\* are, and shows its error on the Login screen.
C7_RejectedLoginKeepsSession ==
    [][(AuthTimer /\ pendingAuth # <<DemoLogin>>) =>
         /\ storage' = NoToken
         /\ storage = NoToken
         /\ ~isAuthenticated'
         /\ path' = path
         /\ screen' = screen
         /\ screen'.kind = "Login"
         /\ error' = "Invalid email or password"
         /\ toast' = "Login failed"
         /\ ~loading']_vars

\* C7 witness: the Login screen showing the error of a rejected check.
C7_Witness ==
    /\ screen.kind = "Login"
    /\ error = "Invalid email or password"
    /\ toast = "Login failed"
    /\ storage = NoToken
    /\ ~isAuthenticated

\* C8 as stated: the submission admin@cryptoanalyzer.com / wrong reaches the
\* credential check (which then fails it).
C8_WrongReachesValidator ==
    [][Submit(AdminEmail, Wrong) =>
         (loading' /\ pendingAuth' = <<[email |-> AdminEmail, password |-> Wrong]>>)]_vars

\* C8 amended: admin@cryptoanalyzer.com / admin123 passes the field rules, the
\* credential check stores a token and the router leaves /login for
\* /dashboard; admin@cryptoanalyzer.com / wrong (5 characters) is stopped by
\* the minLength rule: no credential check, the field error is shown, the
\* session, location and screen are unchanged; a wrong password of 6 or more
\* characters (wrong123) reaches the check, which fails it with no change of
\* session, location or screen.
C8_DemoScenarios ==
    /\ [][Submit(AdminEmail, Admin123) =>
            (loading' /\ pendingAuth' = <<DemoLogin>> /\ formErrors' = NoErrors)]_vars
    /\ [][(AuthTimer /\ pendingAuth = <<DemoLogin>>) =>
            /\ storage' \in Tokens
            /\ isAuthenticated'
            /\ toast' = "Login successful!"
            /\ path = "/login"
            /\ path' = "/dashboard"
            /\ screen' = Show("Dashboard")]_vars
    /\ [][Submit(AdminEmail, Wrong) =>
            /\ pendingAuth' = NoSubmit
            /\ ~loading'
            /\ formErrors' = [email |-> NoFieldError,
                              password |-> "Password must be at least 6 characters"]
            /\ UNCHANGED <<storage, isAuthenticated, path, screen, error, toast>>]_vars
    /\ [][Submit(AdminEmail, Wrong123) =>
            pendingAuth' = <<[email |-> AdminEmail, password |-> Wrong123]>>]_vars
    /\ [][(AuthTimer /\ pendingAuth = <<[email |-> AdminEmail, password |-> Wrong123]>>) =>
            /\ error' = "Invalid email or password"
            /\ toast' = "Login failed"
            /\ UNCHANGED <<storage, isAuthenticated, path, screen>>]_vars

\* C8 witness: the Login screen after admin@cryptoanalyzer.com / wrong was
\* submitted: the minLength error on the password field, nothing pending.
C8_Witness ==
    /\ screen.kind = "Login"
    /\ formErrors = [email |-> NoFieldError,
                     password |-> "Password must be at least 6 characters"]
    /\ pendingAuth = NoSubmit
    /\ storage = NoToken

\* C9: handleLogout applied to the current session gives the logged-out
\* session; applied to a session that is already logged out it changes
\* nothing, and applied twice it gives what it gives applied once.
C9_LogoutIdempotent ==
    LET once == HandleLogout(Session) IN
    /\ once = [storage |-> NoToken, isAuthenticated |-> FALSE]
    /\ HandleLogout(once) = once
    /\ (storage = NoToken /\ ~isAuthenticated) => HandleLogout(Session) = Session

\* C9 witness: the logged-out session a logout has left.
C9_Witness ==
    /\ toast = "Logged out successfully"
    /\ Session = [storage |-> NoToken, isAuthenticated |-> FALSE]

\* C10: the committed element is the route table's for (flag, location), and
\* the table is: /dashboard without the flag redirects to /login, /login with
\* the flag redirects to /dashboard, / redirects to /dashboard with the flag
\* and to /login without, any other path redirects to / and so ends where /
\* ends.
C10_RouteTable ==
    LET a == isAuthenticated IN
    /\ screen = Element(a, path)
    /\ Element(a, "/dashboard") = IF a THEN Show("Dashboard") ELSE NavigateTo("/login")
    /\ Element(a, "/login") = IF a THEN NavigateTo("/dashboard") ELSE Show("Login")
    /\ Element(a, "/") = NavigateTo(IF a THEN "/dashboard" ELSE "/login")
    /\ Element(a, "/unknown") = NavigateTo("/")
    /\ Resolve(a, "/unknown", RedirectFuel) = Resolve(a, "/", RedirectFuel)
    /\ Resolve(a, "/", RedirectFuel) = IF a THEN "Dashboard" ELSE "Login"

\* C10 witness: an authenticated request for an unknown path, redirected to /
\* and about to be redirected to /dashboard.
C10_Witness ==
    /\ isAuthenticated
    /\ path = "/"
    /\ screen = NavigateTo("/dashboard")
    /\ loads > 1

\* a Dashboard is rendered and committed, its observer constructed, the effect
\* of its useQuery still to be flushed
Renders ==
    /\ FlushEffects \/ AuthTimer
    /\ screen.kind # "Dashboard"
    /\ screen'.kind = "Dashboard"
    /\ observers' = 0
\* a Dashboard mounts: the effect of its useQuery subscribes the observer, in
\* a flush of its own or within the step that rendered it
Mounts == (FlushEffects \/ AuthTimer) /\ observers' > observers
\* a Dashboard has unmounted: the cleanup of that effect unsubscribes the
\* observer, in a flush of its own or within the click on Logout
Unmounts == (FlushEffects \/ Logout) /\ observers' < observers
TimePasses == Elapse \/ \E d \in Waits : Wait(d)

\* C11 as stated: the refetch interval of a mounted Dashboard runs in periods
\* of 30 s, each started by the firing that ended the one before, and every
\* firing requests a fetch.
C11_EveryIntervalFetches ==
    /\ [][Tick => query'.isFetching]_vars
    /\ [][(timers.interval \in 0..(RefetchInterval - 1) /\ timers'.interval = RefetchInterval) =>
            Tick]_vars

\* C11: exactly while the observer of a Dashboard is subscribed the refetch
\* interval runs, with at most 30 s to go; the observer is subscribed exactly
\* while a Dashboard is on screen, but for the time between a commit and the
\* flush of its effects, in which no time passes; time does not pass a due
\* tick; every update of the observed Query starts the interval anew, so a
\* tick comes 30 s after the last update; a tick on a visible page requests a
\* fetch whatever the age of the cached data (a queryFn call starts unless one
\* is pending), a tick on a hidden page requests nothing, and either leaves
\* the interval running for another 30 s.
C11_TickFetchesWhileVisible ==
    /\ [](~EffectsPending => (observers > 0 <=> screen.kind = "Dashboard"))
    /\ [](observers > 0 <=> timers.interval \in 0..30000)
    /\ [][TimePasses => ~EffectsPending]_vars
    /\ [][TimePasses => timers.interval # 0]_vars
    /\ [][(observers > 0 /\ observers' > 0 /\ ~TimePasses /\ query' # query) =>
            timers'.interval = 30000]_vars
    /\ [][Tick =>
            /\ timers.interval = 0
            /\ timers'.interval = 30000
            /\ focused =>
                  /\ query'.isFetching
                  /\ ~query.isFetching => inflight' = inflight + 1
            /\ ~focused => (query' = query /\ inflight' = inflight)]_vars

\* C11 witness: on a visible page a tick has started a fetch on data that is
\* 30 s old, far from stale.
C11_Witness ==
    /\ screen.kind = "Dashboard"
    /\ focused
    /\ query.isFetching
    /\ query.data = CryptoRecords
    /\ query.dataAge = 30000
    /\ timers.interval = 30000
    /\ inflight = 1
    /\ toast # "Data refreshed"

\* C12: a Dashboard that mounts on an entry holding data younger than 5
\* minutes starts no fetch and is served the entry as it is, so of two
\* consecutive mounts within that window only the first, which finds no data,
\* starts a fetch.
C12_FreshMountNoFetch ==
    /\ [][(Mounts /\ query.data # NoData /\ query.dataAge < 300000) =>
            /\ inflight' = inflight
            /\ query' = query
            /\ retryer' = retryer]_vars
    /\ [][(Mounts /\ query.data = NoData /\ ~query.isFetching) =>
            inflight' = inflight + 1]_vars

\* C12 witness: a Dashboard just mounted by a login on data of an earlier
\* Dashboard, not stale, with no fetch started.
C12_Witness ==
    /\ screen.kind = "Dashboard"
    /\ toast = "Login successful!"
    /\ query.data = CryptoRecords
    /\ query.dataAge \in 1..299999
    /\ ~query.isFetching
    /\ inflight = 0
    /\ timers.interval = 30000

\* C13 as stated: a Dashboard that mounts on the five records fetched 40 s ago
\* starts no fetch, and the tick that ends its first interval starts one.
C13_OneFetchInFirstInterval ==
    /\ [][(Mounts /\ query.data = CryptoRecords /\ query.dataAge = 40000) =>
            /\ ~query'.isFetching
            /\ inflight' = inflight]_vars
    /\ [][(Tick /\ ~query.isFetching) => inflight' = inflight + 1]_vars

\* C13: a Dashboard that mounts on the five records fetched 40 s ago starts no
\* fetch and starts its 30 s interval; while a Dashboard is mounted on data
\* that is not stale, a fetch is started only by the interval tick or by a
\* manual refresh; a tick on a visible page with no fetch pending starts
\* exactly one call, and a tick on a hidden page starts none.
C13_FreshMountThenTick ==
    /\ [][(Mounts /\ query.data = CryptoRecords /\ query.dataAge = 40000) =>
            /\ ~query'.isFetching
            /\ inflight' = inflight
            /\ timers'.interval = 30000
            /\ timers'.fetch = Off]_vars
    /\ [][(observers > 0 /\ query.data # NoData /\ query.dataAge < 300000
              /\ inflight' > inflight) => (Tick \/ Refresh)]_vars
    /\ [][(Tick /\ focused /\ ~query.isFetching) =>
            (timers.interval = 0 /\ inflight' = inflight + 1)]_vars
    /\ [][(Tick /\ ~focused) => inflight' = inflight]_vars

\* C13 witness: 30 s after a mount on records 40 s old, with no refresh made
\* and the page visible, the tick has started the one fetch of the first
\* interval.
C13_Witness ==
    /\ screen.kind = "Dashboard"
    /\ focused
    /\ toast = "Login successful!"
    /\ query.data = CryptoRecords
    /\ query.dataAge = 70000
    /\ query.isFetching
    /\ inflight = 1
    /\ timers.interval = 30000

C15_ResultDiscarded ==
    [][(FetchResolves /\ observers = 0) =>
         (query'.data = query.data /\ query'.dataAge = query.dataAge)]_vars

\* C16 as stated: on a Dashboard whose query has ended in status error while
\* holding data, the rows show the data and an error indicator is shown.
C16_ErrorIndicatorShown ==
    (screen.kind = "Dashboard" /\ query.status = "error" /\ query.data # NoData) =>
        /\ view.rows = query.data
        /\ view.errorIndicator

\* C17 as stated: a rejected attempt is retried whatever its reason, and the
\* retry of an attempt rejected for rate limiting waits longer than the retry
\* of an attempt rejected for another reason.
C17_RateLimitExtendsBackoff ==
    /\ [][\A reason \in FailureReasons :
            (FetchRejects(reason) /\ ShouldRetry(retryer)) =>
                retryer'.phase = "sleep"]_vars
    /\ [](retryer.phase = "sleep" /\ retryer.reason = "rate-limited" =>
            retryer.delay > RetryDelayFor("network error"))

\* C19: the unsubscription that follows a logout schedules the eviction of the
\* Query 10 minutes later; the
\* eviction is pending exactly while the Query exists unobserved; the Query is
\* removed only by the eviction timer firing with no observer (or by a page
\* load), the timer removes it, and time does not pass a due eviction; a
\* Dashboard that mounts on a Query still cached keeps its data and cancels
\* the eviction, one that is rendered with no Query cached builds a new Query
\* and, mounting (in a flush of its own or within the step that rendered
\* it), starts a fetch with no data.
C19_Eviction ==
    /\ [][Unmounts => (observers' = 0 /\ timers'.gc = 600000)]_vars
    /\ []((observers = 0 /\ query.exists) <=> timers.gc \in 0..600000)
    /\ [][(query.exists /\ ~query'.exists) =>
            \/ CacheTimeout /\ timers.gc = 0 /\ observers = 0
            \/ \E p \in Paths : PageLoad(p)]_vars
    /\ [][CacheTimeout => ~query'.exists]_vars
    /\ [][TimePasses => timers.gc # 0]_vars
    /\ [][(Mounts /\ query.exists) =>
            /\ query'.exists
            /\ query'.data = query.data
            /\ timers'.gc = Off]_vars
    /\ [][(Renders /\ query.exists) => query' = query]_vars
    /\ [][(Renders /\ ~query.exists) =>
            /\ query' = NewQuery
            /\ timers'.gc = 600000]_vars
    /\ [][(Mounts /\ BuildQuery(query) = NewQuery) =>
            /\ query'.data = NoData
            /\ query'.isFetching
            /\ inflight' = inflight + 1]_vars

\* C19 witness: the Query of a Dashboard that was logged out has been evicted.
C19_Witness ==
    /\ toast = "Logged out successfully"
    /\ screen.kind = "Login"
    /\ ~query.exists
    /\ timers.gc = Off
    /\ observers = 0

\* C20: a Query in status success holds data and the time of its update, and
\* a Query in status error holds an error.
C20_StatusInvariant ==
    /\ query.status \in {"idle", "loading", "success", "error"}
    /\ query.status = "success" => (query.data # NoData /\ query.dataAge # Off)
    /\ query.status = "error" => query.error # NoError

\* C20 witness: a Query that ended in status error before it ever held data.
C20_Witness ==
    /\ query.status = "error"
    /\ query.error \in FailureReasons
    /\ query.data = NoData

\* C21: a manual refresh always requests a fetch, whatever the age of the
\* cached data: with no fetch in progress it starts one queryFn call, and with
\* one in progress it joins it, starting none and leaving the query as it is.
C21_RefreshFetchesOrJoins ==
    [][Refresh =>
         /\ query'.isFetching
         /\ ~query.isFetching => (inflight' = inflight + 1 /\ retryer'.phase = "attempt")
         /\ query.isFetching => (inflight' = inflight /\ query' = query
                                   /\ retryer'.phase = retryer.phase)]_vars

\* C21 witness: a manual refresh has started a call on data less than 30 s
\* old.
C21_Witness ==
    /\ screen.kind = "Dashboard"
    /\ toast = "Data refreshed"
    /\ query.data = CryptoRecords
    /\ query.dataAge \in 0..29999
    /\ query.isFetching
    /\ ~retryer.joined
    /\ inflight = 1

\* the local validation of a submission, stated on its own
PassesValidation(email, password) ==
    /\ email # EmptyStr
    /\ EmailPattern(email)
    /\ password # EmptyStr
    /\ Len(password) >= 6

\* C22: a submission reaches the credential check (onSubmit and its timer) iff
\* both fields are present, the e-mail matches the pattern and the password
\* has 6 characters or more; one that does not pass is stopped by the browser
\* (an e-mail value that is no e-mail address: nothing changes) or by the
\* registered rules, which show its field errors; it sets no timer and leaves
\* the session, location, screen, error and toasts as they are; whatever waits
\* for the credential check has passed validation.
C22_ValidatorAfterValidation ==
    /\ [][\A e \in Emails, pw \in Passwords : Submit(e, pw) =>
            IF PassesValidation(e, pw)
            THEN /\ pendingAuth' = <<[email |-> e, password |-> pw]>>
                 /\ timers'.auth = LoginDelay
            ELSE /\ pendingAuth' = NoSubmit
                 /\ ~loading'
                 /\ IF TypeMismatch(e)
                    THEN formErrors' = formErrors /\ form' = form
                    ELSE formErrors' = Validate(e, pw) /\ formErrors' # NoErrors
                 /\ timers' = timers
                 /\ UNCHANGED <<storage, isAuthenticated, path, screen, error, toast>>]_vars
    /\ [](\A e \in Emails : PassesValidation(e, Admin123) => ~TypeMismatch(e))
    /\ [](pendingAuth # NoSubmit =>
            PassesValidation(pendingAuth[1].email, pendingAuth[1].password))
    /\ []((pendingAuth # NoSubmit) <=> (timers.auth # Off))

\* C22 witness: the Login screen showing the pattern error of a submission
\* that the browser let through and the registered rules stopped, nothing
\* pending.
C22_Witness ==
    /\ screen.kind = "Login"
    /\ form = [email |-> LocalEmail, password |-> Admin123, isSubmitted |-> TRUE]
    /\ formErrors.email = "Invalid email address"
    /\ pendingAuth = NoSubmit
    /\ timers.auth = Off
    /\ ~loading
    /\ storage = NoToken

\* C23: what is persisted is no token or a mock token, never a submitted
\* password; and the session a credential check leaves is the same for every
\* password that gets the same verdict as the submitted one.
C23_SecretNotStored ==
    /\ [](storage \in {NoToken} \cup Tokens)
    /\ [](storage # NoToken => storage \notin Passwords)
    /\ [][AuthTimer =>
            \A pw \in Passwords, stamp \in 1..MaxStamp :
                LET data == pendingAuth[1]
                    other == [email |-> data.email, password |-> pw]
                IN CredentialsAccepted(data.email, pw)
                       = CredentialsAccepted(data.email, data.password)
                   => OnSubmit(Session, other, stamp).session
                        = OnSubmit(Session, data, stamp).session]_vars

\* C23 witness: a well-formed submission with a wrong password was rejected,
\* and nothing is stored.
C23_Witness ==
    /\ screen.kind = "Login"
    /\ toast = "Login failed"
    /\ formErrors = NoErrors
    /\ storage = NoToken
    /\ ~isAuthenticated
    /\ pendingAuth = NoSubmit

\* C24: once the startup check has run, the flag is set iff a token is
\* persisted; what is persisted is no token or one mock token; and every
\* logout leaves no token persisted.
C24_FlagIffToken ==
    /\ [](~startupPending => (isAuthenticated <=> storage # NoToken))
    /\ [](storage = NoToken \/ storage \in Tokens)
    /\ [][Logout => (storage' = NoToken /\ ~isAuthenticated')]_vars

\* C24 witness: logged in again after a logout.
C24_Witness ==
    /\ ~startupPending
    /\ isAuthenticated
    /\ storage \in Tokens
    /\ toast = "Login successful!"
    /\ query.dataAge > 0

----------------------------------------------------------------------------
(* Formatter claims.  The expected texts are computed with integers and    *)
(* ToString, apart from the digit arithmetic of the formatters.            *)

RECURSIVE Value(_)
Value(ds) == IF ds = <<>> THEN 0 ELSE 10 * Value(SubSeq(ds, 1, Len(ds) - 1)) + ds[Len(ds)]

TwoDigits(n) == ToString(n \div 10) \o ToString(n % 10)
ThreeDigits(n) == ToString(n \div 100) \o TwoDigits(n % 100)

RECURSIVE Thousands(_)
Thousands(n) ==
    IF n < 1000 THEN ToString(n)
    ELSE Thousands(n \div 1000) \o "," \o ThreeDigits(n % 1000)

\* en-US currency text of a positive v < 1e6: cents rounded half up, grouped
CurrencyText(v) ==
    LET thousandths == Value(v.int \o SubSeq(v.frac \o Zeros(3), 1, 3))
        cents == (thousandths + 5) \div 10
    IN "$" \o Thousands(cents \div 100) \o "." \o TwoDigits(cents % 100)

\* the 2-decimal values nearest to v / 1ek, in hundredths, for v >= 1ek
Nearest(v, k) ==
    LET n    == Len(v.int) - (k - 2)
        low  == Value(SubSeq(v.int, 1, n))
        rest == SubSeq(v.int, n + 1, Len(v.int)) \o v.frac
        more == \E i \in 2..Len(rest) : rest[i] # 0
    IN IF rest[1] < 5 THEN {low}
       ELSE IF rest[1] > 5 \/ more THEN {low + 1}
       ELSE {low, low + 1}

FixedText(p) == ToString(p \div 100) \o "." \o TwoDigits(p % 100)

\* C25: for every positive v < 1e6, formatLargeNumber(v) is formatCurrency(v),
\* the grouped dollar text with two decimals and no tier suffix.
C25_BelowMillionIsCurrency ==
    (/\ render.fn = "formatLargeNumber"
     /\ IsFinite(render.input)
     /\ GreaterThanZero(render.input)
     /\ Len(render.input.int) <= 6)
        => /\ render.output = FormatCurrency(render.input)
           /\ render.output = CurrencyText(render.input)

\* C25 witness: formatLargeNumber(999999) gave "$999,999.00".
C25_Witness ==
    /\ render.fn = "formatLargeNumber"
    /\ render.input = Scaled(FALSE, <<9, 9, 9, 9, 9, 9>>, 8)
    /\ render.output = "$999,999.00"

\* C26: for a finite v, formatLargeNumber(v) is "$", a prefix and "T" when
\* v >= 1e12, "B" when 1e9 <= v < 1e12, "M" when 1e6 <= v < 1e9, and the
\* suffixless currency text below 1e6; the prefix is a 2-decimal value nearest
\* to v divided by the tier's unit.  As each case ends differently, the
\* suffix is "T" iff v >= 1e12, and so on.
C26_TiersAndPrefix ==
    (render.fn = "formatLargeNumber" /\ IsFinite(render.input)) =>
        LET v == render.input
            digits == IF v.neg THEN 0 ELSE Len(v.int)
        IN IF digits >= 13
           THEN render.output \in {"$" \o FixedText(p) \o "T" : p \in Nearest(v, 12)}
           ELSE IF digits >= 10
           THEN render.output \in {"$" \o FixedText(p) \o "B" : p \in Nearest(v, 9)}
           ELSE IF digits >= 7
           THEN render.output \in {"$" \o FixedText(p) \o "M" : p \in Nearest(v, 6)}
           ELSE render.output = FormatCurrency(v)

\* C26 witness: formatLargeNumber(1e12), the lower bound of the T tier, gave
\* "$1.00T".
C26_Witness ==
    /\ render.fn = "formatLargeNumber"
    /\ render.input = Scaled(FALSE, <<1>>, 15)
    /\ render.output = "$1.00T"

\* C27: for every number x (NaN is not one), getPriceChangeColor(x) is the
\* gain colour iff x > 0, the loss colour iff x < 0 and the neutral colour iff
\* x == 0; exactly one of the three holds.
C27_ColorBySign ==
    (render.fn = "getPriceChangeColor" /\ render.input.kind # "NaN") =>
        LET x == render.input
            ds       == x.int \o x.frac
            nonzero  == x.kind = "Infinity" \/ \E i \in 1..Len(ds) : ds[i] > 0
            positive == ~x.neg /\ nonzero
            negative == x.neg /\ nonzero
            zero     == ~nonzero
        IN /\ render.output \in {"success.main", "error.main", "text.secondary"}
           /\ render.output = "success.main" <=> positive
           /\ render.output = "error.main" <=> negative
           /\ render.output = "text.secondary" <=> zero

\* C27 witness: getPriceChangeColor(-0.001) gave the loss colour.
C27_Witness ==
    /\ render.fn = "getPriceChangeColor"
    /\ render.input = Scaled(TRUE, <<1>>, 0)
    /\ render.output = "error.main"

\* texts that render NaN or an infinity
NonFiniteTexts == {"$NaN", "$" \o InfinitySign, "-$" \o InfinitySign, "$InfinityT"}

\* C28: formatCurrency and formatLargeNumber never return a text rendering
\* NaN or an infinity for a non-finite argument.
C28_NonFiniteRejected ==
    (render.fn \in {"formatCurrency", "formatLargeNumber"} /\ ~IsFinite(render.input))
        => render.output \notin NonFiniteTexts

----------------------------------------------------------------------------

\* C29: a click on a row's Analyze button, for any row and in any state,
\* leaves the persisted token, the flag, the Query with its Retryer and calls,
\* every timer, the location and the screen as they are.
C29_AnalyzeFrame ==
    [][Analyze => UNCHANGED <<storage, isAuthenticated, query, retryer, inflight,
                              observers, timers, path, screen>>]_vars

\* C29 witness: an Analyze toast is showing while the rows are up, a fetch is
\* in flight and the refresh timer runs.
C29_Witness ==
    /\ screen.kind = "Dashboard"
    /\ toast = "Analyzing TAO..."
    /\ query.data = CryptoRecords
    /\ query.isFetching
    /\ timers.interval # Off
    /\ storage \in Tokens

\* C30 as stated: a fetch that is running ends.
C30_FetchTerminates == query.isFetching ~> ~query.isFetching

\* C30: a fetch that is running ends, in status success or error (idle is the
\* status of a Query that has had no fetch yet), or is paused: a retry delay
\* that ends while the page is hidden or offline pauses the Retryer, which
\* stays paused only while the page is hidden or offline and continues at the
\* event that finds it visible and online.  While a fetch runs it has failed
\* at most 3 times, so it makes at most 4 attempts, and the count of its
\* failed attempts never falls and grows with every rejected attempt; a
\* rejected attempt leaves the fetch either sleeping on its retry delay or
\* over in status error; and within a running fetch a new attempt starts only
\* when the retry delay timer of a sleeping Retryer fires or a paused Retryer
\* continues.
C30_FetchEndsOrPauses ==
    /\ query.isFetching ~> (~query.isFetching \/ retryer.phase = "paused")
    /\ [](query.isFetching =>
            /\ retryer.failed <= Retry
            /\ retryer.phase \in {"attempt", "sleep", "paused"})
    /\ [](retryer.phase = "paused" => (query.isFetching /\ ~(focused /\ online)))
    /\ [][RetryTimer => (retryer'.phase = "paused" <=> ~(focused /\ online))]_vars
    /\ [][(retryer.phase = "paused" /\ focused' /\ online') =>
            retryer'.phase # "paused"]_vars
    /\ [](query.exists /\ ~query.isFetching =>
            /\ query.status \in {"idle", "success", "error"}
            /\ query.status = "idle" => (query = NewQuery /\ observers = 0)
            /\ retryer.phase = "none")
    /\ [][(query.isFetching /\ query'.isFetching) => retryer'.failed >= retryer.failed]_vars
    /\ [][(\E reason \in FailureReasons : FetchRejects(reason)) =>
            /\ retryer'.failed = retryer.failed + 1
            /\ \/ query'.isFetching /\ retryer'.phase = "sleep" /\ timers'.sleep = RetryDelay
               \/ ~query'.isFetching /\ query'.status = "error"]_vars
    /\ [][(query.isFetching /\ query'.isFetching /\ inflight' > inflight) =>
            \/ RetryTimer /\ retryer.phase = "sleep" /\ timers.sleep = 0
            \/ (Online \/ Focus) /\ retryer.phase = "paused"]_vars

\* C30 witness: the third retry delay of a fetch has ended on a hidden page,
\* the browser online: the fetch is paused, three attempts rejected, its last attempt still to be made.
C30_Witness ==
    /\ query.isFetching
    /\ query.isPaused
    /\ retryer.phase = "paused"
    /\ retryer.failed = Retry
    /\ ~focused
    /\ online
    /\ inflight = 0

----------------------------------------------------------------------------

\* the number of redirects a request for p follows before a screen is shown
RECURSIVE Redirects(_, _, _)
Redirects(auth, p, fuel) ==
    LET e == Element(auth, p) IN
    IF e.kind # "Navigate" \/ fuel = 0 THEN 0
    ELSE 1 + Redirects(auth, e.to, fuel - 1)

\* C31: under either value of the flag, every location resolves to the Login
\* screen or the Dashboard within two redirects, none of them back to a
\* location already visited; the committed screen is always the element of
\* the current flag and location, and a redirect that follows a redirect
\* lands on a screen.
C31_RoutingTerminates ==
    /\ \A auth \in BOOLEAN, p \in Paths :
          /\ Resolve(auth, p, RedirectFuel) \in {"Login", "Dashboard"}
          /\ Redirects(auth, p, RedirectFuel) <= 2
          /\ Element(auth, p).kind = "Navigate" =>
                /\ Element(auth, p).to # p
                /\ Element(auth, Element(auth, p).to).kind = "Navigate" =>
                      Element(auth, Element(auth, p).to).to
                          \notin {p, Element(auth, p).to}
    /\ screen = Element(isAuthenticated, path)
    /\ (~startupPending /\ screen.kind = "Navigate"
          /\ Element(isAuthenticated, screen.to).kind = "Navigate") =>
            Element(isAuthenticated,
                    Element(isAuthenticated, screen.to).to).kind # "Navigate"

\* C31 witness: a logged-in user's reload at an unknown location, one redirect
\* (to /) done and one more (to /dashboard) to follow.
C31_Witness ==
    /\ ~startupPending
    /\ isAuthenticated
    /\ path = "/"
    /\ screen = NavigateTo("/dashboard")
    /\ loads = 2

\* C32: while a token is persisted, neither the Login screen nor a redirect to
\* /login is ever rendered.
C32_TokenHonouredAtFirstRender ==
    storage # NoToken =>
        /\ screen.kind # "Login"
        /\ screen # NavigateTo("/login")

\* C33: at most one submission waits for its credential check, and loading is
\* set exactly while one does; no submission starts and no field changes while
\* loading is set; and
\* the credential check of a pending submission runs once, taking it away and
\* clearing loading.
C33_OneValidationInFlight ==
    /\ [](Len(pendingAuth) <= 1)
    /\ [](loading <=> pendingAuth # NoSubmit)
    /\ [][((\E e \in Emails, pw \in Passwords : Submit(e, pw))
              \/ (\E e \in Emails : ChangeEmail(e))
              \/ (\E pw \in Passwords : ChangePassword(pw))) => ~loading]_vars
    /\ [][AuthTimer => (/\ loading /\ Len(pendingAuth) = 1
                        /\ ~loading' /\ pendingAuth' = NoSubmit
                        /\ timers'.auth = Off)]_vars

\* C33 witness: a submission with a wrong password is pending, its timer due,
\* the form disabled.
C33_Witness ==
    /\ screen.kind = "Login"
    /\ loading
    /\ FormDisabled(loading)
    /\ Len(pendingAuth) = 1
    /\ pendingAuth[1].password = Wrong123
    /\ timers.auth = 0

\* C34: a logout, and the unsubscription that follows it, leave the Query
\* 'cryptoData' and its pending call as they are; the Query is evicted only when its data is stale (or there is none);
\* and a Dashboard that mounts on data that is not stale shows that data and
\* starts no fetch.
C34_LogoutKeepsCache ==
    /\ [][(Logout \/ Unmounts) => (query' = query /\ inflight' = inflight)]_vars
    /\ [][(CacheTimeout /\ ~query'.exists) => IsStale(query)]_vars
    /\ [][(Mounts /\ query.data # NoData /\ ~IsStale(query)) =>
            /\ view'.rows = query.data
            /\ query'.dataAge = query.dataAge
            /\ query'.status = query.status
            /\ inflight' = inflight]_vars

\* C34 witness: logged in again at least a second after the data of the
\* previous session was fetched, the Dashboard shows it with no fetch running.
C34_Witness ==
    /\ screen.kind = "Dashboard"
    /\ observers = 1
    /\ toast = "Login successful!"
    /\ query.status = "success"
    /\ view.rows = CryptoRecords
    /\ query.dataAge \in 1000..(StaleTime - 1)
    /\ ~query.isFetching
    /\ timers.gc = Off

\* C35: whenever the Dashboard shows rows, lastUpdate is the time the shown
\* data was fetched, to the second the chip displays: it is not a second or
\* more newer, and not older.
C35_LastUpdateIsFetchTime ==
    (screen.kind = "Dashboard" /\ view.rows # NoData) =>
        /\ lastUpdate <= query.dataAge
        /\ query.dataAge - lastUpdate < 1000

\* C36: the step that emits the 'Data refreshed' toast leaves no fetch
\* running, the refreshed data in the Query.
C36_ToastAfterSuccess ==
    [][(Refresh /\ toast' = "Data refreshed") =>
          (~query'.isFetching /\ query'.status = "success" /\ query'.dataAge = 0)]_vars

\* C37: with the shipped queryFn no attempt fails: the failure count stays 0,
\* the status is never error, the Retryer never sleeps on a retry delay; and
\* every fetch that succeeds stores the same five records, in the same order,
\* their symbols pairwise distinct.
C37_ShippedNeverFails ==
    /\ [](provider = "mock" =>
            /\ query.fetchFailureCount = 0
            /\ retryer.failureCount = 0
            /\ retryer.failed = 0
            /\ rejected = 0
            /\ query.status # "error"
            /\ query.error = NoError
            /\ retryer.phase # "sleep"
            /\ timers.sleep = Off
            /\ query.data \in {NoData, CryptoRecords})
    /\ [][(FetchResolves /\ provider = "mock") =>
            /\ query'.data = CryptoRecords
            /\ Len(query'.data) = 5
            /\ \A i, j \in 1..Len(query'.data) :
                  i # j => query'.data[i] # query'.data[j]]_vars

\* C37 witness: with the shipped queryFn, the fetch of a manual refresh has
\* just succeeded on top of earlier data.
C37_Witness ==
    /\ provider = "mock"
    /\ toast = "Data refreshed"
    /\ query.status = "success"
    /\ query.data = CryptoRecords
    /\ query.dataAge = 0
    /\ lastUpdate = 0
    /\ ~query.isFetching
    /\ retryer.failed = 0

\* C38: for every finite change, the rising icon is shown iff the colour is
\* the gain colour and the falling icon iff it is the loss colour; a change
\* of 0, in the neutral colour, shows neither.
C38_IconAgreesWithColor ==
    (render.fn = "priceChangeIcon" /\ IsFinite(render.input)) =>
        /\ render.output = "TrendingUp"
              <=> GetPriceChangeColor(render.input) = "success.main"
        /\ render.output = "TrendingDown"
              <=> GetPriceChangeColor(render.input) = "error.main"

\* C39: whenever formatLargeNumber gives an M or B suffix, the prefix is at
\* least 1.00 and below 1000.00.
C39_PrefixBelowThousand ==
    (render.fn = "formatLargeNumber" /\ IsFinite(render.input)) =>
        LET v == render.input
            digits == IF v.neg THEN 0 ELSE Len(v.int)
            unit == IF digits >= 10 THEN 9 ELSE 6
            suffix == IF digits >= 10 THEN "B" ELSE "M"
        IN digits \in 7..12 =>
             \E p \in Nearest(v, unit) :
                /\ render.output = "$" \o FixedText(p) \o suffix
                /\ p >= 100
                /\ p < 100000

====
